---- MODULE Spec2Model ----
(***************************************************************************)
(* RSASSA-PSS key interchange and signing facade of josekit                *)
(* (src/jws/alg/rsapss.rs).                                                *)
(*                                                                         *)
(* Byte strings are sequences of 0..255, text is a sequence of ASCII       *)
(* codes.  The DER codec (crate::der), the PEM parser (crate::util) and    *)
(* the Jwk container (crate::jwk) are collaborators whose code is not in   *)
(* rsapss.rs; they are modelled from their described contracts.  The       *)
(* cryptography provider (openssl) and the base64 codec are external and   *)
(* are modelled by their contracts at the call sites.                      *)
(***************************************************************************)
EXTENDS Integers, Sequences, FiniteSets, TLC

VARIABLES
    last,       \* the call just made: operation, arguments, outcome
    obj,        \* the object bound by the latest import call (NoObj when it failed)
    cur_keypair,    \* the key pair of the running sign-and-verify scenario
    cur_signer,     \* its signer
    cur_verifier,   \* its verifier
    cur_signature   \* the signature its signer made last

vars == <<last, obj, cur_keypair, cur_signer, cur_verifier, cur_signature>>

None == "None"

(***************************************************************************)
(* Small helpers on sequences.                                             *)
(***************************************************************************)
Range(s) == {s[i] : i \in 1..Len(s)}

RECURSIVE Flatten(_)
Flatten(ss) == IF ss = <<>> THEN <<>> ELSE Head(ss) \o Flatten(Tail(ss))

Take(s, n) == SubSeq(s, 1, n)

Drop(s, n) == SubSeq(s, n + 1, Len(s))

(***************************************************************************)
(* Algorithms and their derived attributes.                                *)
(***************************************************************************)
Algorithms == {"PS256", "PS384", "PS512"}

OID_RSASSA_PSS == <<1, 2, 840, 113549, 1, 1, 10>>

OID_SHA256 == <<2, 16, 840, 1, 101, 3, 4, 2, 1>>

OID_SHA384 == <<2, 16, 840, 1, 101, 3, 4, 2, 2>>

OID_SHA512 == <<2, 16, 840, 1, 101, 3, 4, 2, 3>>

OID_MGF1 == <<1, 2, 840, 113549, 1, 1, 8>>

\* A copy-and-paste slip: every variant answers the SHA-256 OID.
digest_same(alg) == OID_SHA256

digest(alg) ==
    CASE alg = "PS256" -> OID_SHA256
      [] alg = "PS384" -> OID_SHA384
      [] alg = "PS512" -> OID_SHA512

salt_len(alg) ==
    CASE alg = "PS256" -> 32
      [] alg = "PS384" -> 48
      [] alg = "PS512" -> 64

name(alg) == alg

key_type(alg) == "RSA"

\* MessageDigest selected in sign / verify.
message_digest(alg) ==
    CASE alg = "PS256" -> "sha256"
      [] alg = "PS384" -> "sha384"
      [] alg = "PS512" -> "sha512"

(***************************************************************************)
(* DER types (crate::der::DerType) as (class, number) pairs.               *)
(***************************************************************************)
Universal(n) == [cls |-> "Universal", num |-> n]

ContextSpecific(n) == [cls |-> "ContextSpecific", num |-> n]

EndOfContents == Universal(0)

Integer == Universal(2)

BitString == Universal(3)

OctetString == Universal(4)

ObjectIdentifier == Universal(6)

Sequence == Universal(16)

ClassBits(cls) ==
    CASE cls = "Universal" -> 0
      [] cls = "Application" -> 64
      [] cls = "ContextSpecific" -> 128
      [] cls = "Private" -> 192

ClassOfBits(b) ==
    CASE b = 0 -> "Universal"
      [] b = 1 -> "Application"
      [] b = 2 -> "ContextSpecific"
      [] b = 3 -> "Private"

(***************************************************************************)
(* DerBuilder: a stack of open scopes; begin pushes, append writes into    *)
(* the open scope, end wraps the scope as tag-length-value into its parent.*)
(***************************************************************************)
DerLength(n) ==
    IF n < 128 THEN <<n>>
    ELSE IF n < 256 THEN <<129, n>>
    ELSE <<130, n \div 256, n % 256>>

TLV(tag, contents) == <<tag>> \o DerLength(Len(contents)) \o contents

RECURSIVE Base128Hi(_)
Base128Hi(n) == IF n = 0 THEN <<>> ELSE Base128Hi(n \div 128) \o <<128 + (n % 128)>>

Base128(n) == Base128Hi(n \div 128) \o <<n % 128>>

OidContents(oid) ==
    Base128(40 * oid[1] + oid[2])
        \o Flatten([i \in 1..(Len(oid) - 2) |-> Base128(oid[i + 2])])

BuilderNew == <<[tag |-> -1, buf |-> <<>>]>>

BuilderWrite(b, bytes) ==
    [b EXCEPT ![Len(b)].buf = @ \o bytes]

BuilderBegin(b, dtype) ==
    Append(b, [tag |-> ClassBits(dtype.cls) + 32 + dtype.num, buf |-> <<>>])

BuilderEnd(b) ==
    IF Len(b) < 2 THEN b
    ELSE BuilderWrite(Take(b, Len(b) - 1), TLV(b[Len(b)].tag, b[Len(b)].buf))

append_integer_from_u8(b, v) ==
    BuilderWrite(b, TLV(2, IF v >= 128 THEN <<0, v>> ELSE <<v>>))

append_integer_from_be_slice(b, slice) ==
    BuilderWrite(b, TLV(2, IF slice = <<>> THEN <<0>>
                           ELSE IF slice[1] >= 128 THEN <<0>> \o slice
                           ELSE slice))

append_object_identifier(b, oid) == BuilderWrite(b, TLV(6, OidContents(oid)))

append_bit_string_from_slice(b, slice, unused) ==
    BuilderWrite(b, TLV(3, <<unused>> \o slice))

append_octed_string_from_slice(b, slice) == BuilderWrite(b, TLV(4, slice))

BuilderBuild(b) == b[1].buf

\* One builder call, as the code issues it.
BuilderApply(b, c) ==
    CASE c.op = "begin" -> BuilderBegin(b, c.dtype)
      [] c.op = "end" -> BuilderEnd(b)
      [] c.op = "u8" -> append_integer_from_u8(b, c.val)
      [] c.op = "int" -> append_integer_from_be_slice(b, c.bytes)
      [] c.op = "oid" -> append_object_identifier(b, c.oid)
      [] c.op = "bits" -> append_bit_string_from_slice(b, c.bytes, 0)
      [] c.op = "octets" -> append_octed_string_from_slice(b, c.bytes)

RECURSIVE BuilderRun(_, _, _)
BuilderRun(b, calls, i) ==
    IF i > Len(calls) THEN b ELSE BuilderRun(BuilderApply(b, calls[i]), calls, i + 1)

Begin(dtype) == [op |-> "begin", dtype |-> dtype]

End == [op |-> "end"]

(***************************************************************************)
(* to_pkcs8: the builder calls of the PSS wrapper, in source order.        *)
(***************************************************************************)
\* The MGF1 inner hash is emitted as SHA-256 whatever the algorithm.
to_pkcs8_calls_mgf_sha256(alg, input, is_public) ==
    <<Begin(Sequence)>>
    \o (IF ~is_public THEN <<[op |-> "u8", val |-> 0]>> ELSE <<>>)
    \o <<Begin(Sequence),
           [op |-> "oid", oid |-> OID_RSASSA_PSS],
           Begin(Sequence),
             Begin(ContextSpecific(0)),
               Begin(Sequence),
                 [op |-> "oid", oid |-> digest(alg)],
               End,
             End,
             Begin(ContextSpecific(1)),
               Begin(Sequence),
                 [op |-> "oid", oid |-> OID_MGF1],
                 Begin(Sequence),
                   [op |-> "oid", oid |-> OID_SHA256],
                 End,
               End,
             End,
             Begin(ContextSpecific(2)),
               [op |-> "u8", val |-> salt_len(alg)],
             End,
           End,
         End>>
    \o (IF is_public THEN <<[op |-> "bits", bytes |-> input]>>
        ELSE <<[op |-> "octets", bytes |-> input]>>)
    \o <<End>>

to_pkcs8_calls(alg, input, is_public) ==
    <<Begin(Sequence)>>
    \o (IF ~is_public THEN <<[op |-> "u8", val |-> 0]>> ELSE <<>>)
    \o <<Begin(Sequence),
           [op |-> "oid", oid |-> OID_RSASSA_PSS],
           Begin(Sequence),
             Begin(ContextSpecific(0)),
               Begin(Sequence),
                 [op |-> "oid", oid |-> digest(alg)],
               End,
             End,
             Begin(ContextSpecific(1)),
               Begin(Sequence),
                 [op |-> "oid", oid |-> OID_MGF1],
                 Begin(Sequence),
                   [op |-> "oid", oid |-> digest(alg)],
                 End,
               End,
             End,
             Begin(ContextSpecific(2)),
               [op |-> "u8", val |-> salt_len(alg)],
             End,
           End,
         End>>
    \o (IF is_public THEN <<[op |-> "bits", bytes |-> input]>>
        ELSE <<[op |-> "octets", bytes |-> input]>>)
    \o <<End>>

to_pkcs8(alg, input, is_public) ==
    BuilderBuild(BuilderRun(BuilderNew, to_pkcs8_calls(alg, input, is_public), 1))

(***************************************************************************)
(* DerReader: a pull parser.  next() answers the next tag, EndOfContents   *)
(* when the read position leaves a constructed element, None at the end of *)
(* the input.  The stack holds the end offset of every open constructed    *)
(* element.  Elements that end at the same offset are left together, by    *)
(* one EndOfContents: rsapss.rs reads exactly one EndOfContents between    *)
(* the [0], [1] and [2] parameters (lines 472-480, 524-532), where two and *)
(* three elements close, and its tests (lines 883-964) require that        *)
(* template to match the wrapper to_pkcs8 emits.                           *)
(***************************************************************************)
RECURSIVE LeaveEnded(_, _)
LeaveEnded(stack, pos) ==
    IF stack # <<>> /\ stack[Len(stack)] = pos
        THEN LeaveEnded(SubSeq(stack, 1, Len(stack) - 1), pos)
    ELSE stack

from_reader(input) ==
    [input |-> input, pos |-> 0, stack |-> <<>>,
     res |-> "Start", dtype |-> EndOfContents, contents |-> <<>>]

\* The length octets at 1-based index i: [ok, len, used].
ReadLength(input, i) ==
    IF i > Len(input) THEN [ok |-> FALSE, len |-> 0, used |-> 0]
    ELSE IF input[i] < 128 THEN [ok |-> TRUE, len |-> input[i], used |-> 1]
    ELSE IF input[i] = 129 /\ i + 1 <= Len(input)
        THEN [ok |-> TRUE, len |-> input[i + 1], used |-> 2]
    ELSE IF input[i] = 130 /\ i + 2 <= Len(input)
        THEN [ok |-> TRUE, len |-> input[i + 1] * 256 + input[i + 2], used |-> 3]
    ELSE [ok |-> FALSE, len |-> 0, used |-> 0]

ReaderFail(r) == [r EXCEPT !.res = "Err", !.contents = <<>>]

ReaderNext(r) ==
    LET depth == Len(r.stack)
        limit == IF depth > 0 THEN r.stack[depth] ELSE -1
    IN  IF r.res = "Err" THEN r
        ELSE IF depth > 0 /\ r.pos = limit
            THEN [r EXCEPT !.stack = LeaveEnded(r.stack, r.pos), !.res = "Some",
                           !.dtype = EndOfContents, !.contents = <<>>]
        ELSE IF r.pos >= Len(r.input)
            THEN IF depth = 0 THEN [r EXCEPT !.res = "None", !.contents = <<>>]
                 ELSE ReaderFail(r)
        ELSE
            LET tag == r.input[r.pos + 1]
                num == tag % 32
                constructed == (tag \div 32) % 2 = 1
                dtype == [cls |-> ClassOfBits(tag \div 64), num |-> num]
                lg == ReadLength(r.input, r.pos + 2)
                start == r.pos + 1 + lg.used
                stop == start + lg.len
            IN  IF num = 31 \/ ~lg.ok THEN ReaderFail(r)
                ELSE IF depth > 0 /\ stop > limit THEN ReaderFail(r)
                ELSE IF constructed
                    THEN [r EXCEPT !.pos = start, !.stack = Append(r.stack, stop),
                                   !.res = "Some", !.dtype = dtype, !.contents = <<>>]
                ELSE IF stop > Len(r.input) THEN ReaderFail(r)
                ELSE [r EXCEPT !.pos = stop, !.res = "Some", !.dtype = dtype,
                               !.contents = SubSeq(r.input, start + 1, stop)]

\* to_u8 of the current primitive: [ok, val].
to_u8(r) ==
    LET c == r.contents
    IN  IF Len(c) = 1 /\ c[1] < 128 THEN [ok |-> TRUE, val |-> c[1]]
        ELSE IF Len(c) = 2 /\ c[1] = 0 /\ c[2] >= 128 THEN [ok |-> TRUE, val |-> c[2]]
        ELSE [ok |-> FALSE, val |-> 0]

\* The base-128 numbers of an OID's contents; <<-1>> marks a malformed one.
RECURSIVE Base128Decode(_, _, _)
Base128Decode(c, i, acc) ==
    IF i > Len(c) THEN (IF acc = -1 THEN <<>> ELSE <<-1>>)
    ELSE LET v == (IF acc = -1 THEN 0 ELSE acc) * 128 + (c[i] % 128)
         IN  IF c[i] >= 128 THEN Base128Decode(c, i + 1, v)
             ELSE <<v>> \o Base128Decode(c, i + 1, -1)

\* to_object_identifier of the current primitive: [ok, val].
to_object_identifier(r) ==
    LET ns == Base128Decode(r.contents, 1, -1)
    IN  IF ns = <<>> \/ -1 \in Range(ns) THEN [ok |-> FALSE, val |-> <<>>]
        ELSE LET first == IF ns[1] < 40 THEN 0 ELSE IF ns[1] < 80 THEN 1 ELSE 2
             IN  [ok |-> TRUE, val |-> <<first, ns[1] - 40 * first>> \o Tail(ns)]

(***************************************************************************)
(* detect_pkcs8: walk the expected template; any other answer of next(),   *)
(* to_u8() or to_object_identifier() is Ok(false).                         *)
(***************************************************************************)
Expect(dtype) == [dtype |-> dtype, chk |-> "none"]

ExpectU8(val) == [dtype |-> Integer, chk |-> "u8", val |-> val]

ExpectOid(oid) == [dtype |-> ObjectIdentifier, chk |-> "oid", val |-> oid]

\* The template without the version and AlgorithmIdentifier positions.
detect_template_top_only(alg, is_public) == <<Expect(Sequence)>>

detect_template(alg, is_public) ==
    <<Expect(Sequence)>>                                   \* 401-404
    \o (IF ~is_public THEN <<ExpectU8(0)>> ELSE <<>>)      \* 407-420
    \o <<Expect(Sequence),                                 \* 422-425
           ExpectOid(OID_RSASSA_PSS),                      \* 428-438
           Expect(Sequence),                               \* 440-443
             Expect(ContextSpecific(0)),                   \* 446-449
             Expect(Sequence),                             \* 451-454
               ExpectOid(digest(alg)),                     \* 457-469
             Expect(EndOfContents),                        \* 472-475
             Expect(ContextSpecific(1)),                   \* 477-480
             Expect(Sequence),                             \* 482-485
               ExpectOid(OID_MGF1),                        \* 488-500
               Expect(Sequence),                           \* 502-505
                 ExpectOid(digest(alg)),                   \* 508-520
             Expect(EndOfContents),                        \* 524-527
             Expect(ContextSpecific(2)),                   \* 529-532
             ExpectU8(salt_len(alg))>>                     \* 534-544

StepMatches(r, step) ==
    /\ r.res = "Some"
    /\ r.dtype = step.dtype
    /\ CASE step.chk = "none" -> TRUE
         [] step.chk = "u8" -> to_u8(r).ok /\ to_u8(r).val = step.val
         [] step.chk = "oid" ->
                to_object_identifier(r).ok /\ to_object_identifier(r).val = step.val

RECURSIVE DetectWalk(_, _, _)
DetectWalk(reader, steps, i) ==
    IF i > Len(steps) THEN "Ok(true)"
    ELSE LET r == ReaderNext(reader)
         IN  IF StepMatches(r, steps[i]) THEN DetectWalk(r, steps, i + 1)
             ELSE "Ok(false)"

\* Where the walk of detect_pkcs8 stops and why: the number of template
\* positions matched, the reader's offset, and the answer that ended the walk
\* ("matched" when every position matched).
StopCause(r, step) ==
    IF r.res = "Err" THEN "next: Err"
    ELSE IF r.res = "None" THEN "next: None"
    ELSE IF r.dtype # step.dtype THEN "other type"
    ELSE IF step.chk = "u8" /\ ~to_u8(r).ok THEN "to_u8: Err"
    ELSE IF step.chk = "oid" /\ ~to_object_identifier(r).ok THEN "to_object_identifier: Err"
    ELSE "other value"

RECURSIVE DetectStop(_, _, _)
DetectStop(reader, steps, i) ==
    IF i > Len(steps) THEN [matched |-> i - 1, pos |-> reader.pos, cause |-> "matched"]
    ELSE LET r == ReaderNext(reader)
         IN  IF StepMatches(r, steps[i]) THEN DetectStop(r, steps, i + 1)
             ELSE [matched |-> i - 1, pos |-> r.pos, cause |-> StopCause(r, steps[i])]

detect_stop(alg, input, is_public) ==
    DetectStop(from_reader(input), detect_template(alg, is_public), 1)

ReaderErrors == {"next: Err", "to_u8: Err", "to_object_identifier: Err"}

\* detect_pkcs8 reading on to the key body after the parameters.
detect_pkcs8_through_body(alg, input, is_public) ==
    DetectWalk(from_reader(input),
               detect_template(alg, is_public)
                   \o <<Expect(EndOfContents),
                        Expect(IF is_public THEN BitString ELSE OctetString)>>, 1)

\* detect_pkcs8 handing the reader's errors on, as a `?` on each call would.
detect_pkcs8_propagating(alg, input, is_public) ==
    IF detect_stop(alg, input, is_public).cause \in ReaderErrors THEN "Err"
    ELSE DetectWalk(from_reader(input), detect_template(alg, is_public), 1)

detect_pkcs8(alg, input, is_public) ==
    DetectWalk(from_reader(input), detect_template(alg, is_public), 1)

(***************************************************************************)
(* The cryptography provider (openssl), by contract.  An RSA key is an     *)
(* identity with the bit length of its modulus; its components are short   *)
(* stand-ins for the big numbers.  A key handle (PKey) carries the key,    *)
(* whether it holds the private half, and the PSS restriction read from    *)
(* the AlgorithmIdentifier it was parsed with.                             *)
(***************************************************************************)
Keys == {[id |-> 1, bits |-> 1024], [id |-> 2, bits |-> 2047],
         [id |-> 3, bits |-> 2048], [id |-> 4, bits |-> 3072]}

PrivateParams == <<"n", "e", "d", "p", "q", "dp", "dq", "qi">>

PublicParams == <<"n", "e">>

\* A modulus above 3072 bits is one octet longer for every 8 bits more.
ExtraOctets(k) == IF k.bits > 3072 THEN (k.bits - 3072) \div 8 ELSE 0

\* BigNum::to_vec(): big-endian magnitude.
Component(k, p) ==
    CASE p = "n" -> <<192 + k.id>> \o [i \in 1..ExtraOctets(k) |-> 85]
      [] p = "e" -> <<1, 0, 1>>
      [] p = "d" -> <<16 + k.id, 200>>
      [] p = "p" -> <<32 + k.id>>
      [] p = "q" -> <<48 + k.id>>
      [] p = "dp" -> <<64 + k.id>>
      [] p = "dq" -> <<80 + k.id>>
      [] p = "qi" -> <<96 + k.id>>

DerInteger(mag) == TLV(2, IF mag[1] >= 128 THEN <<0>> \o mag ELSE mag)

\* rsa.private_key_to_der(): PKCS#1 RSAPrivateKey.
private_key_to_der(k) ==
    TLV(48, DerInteger(<<0>>)
            \o Flatten([i \in 1..8 |-> DerInteger(Component(k, PrivateParams[i]))]))

\* rsa.public_key_to_der_pkcs1(): PKCS#1 RSAPublicKey.
public_key_to_der_pkcs1(k) ==
    TLV(48, DerInteger(Component(k, "n")) \o DerInteger(Component(k, "e")))

Hashes == {"sha256", "sha384", "sha512"}

HashOid(h) ==
    CASE h = "sha256" -> OID_SHA256
      [] h = "sha384" -> OID_SHA384
      [] h = "sha512" -> OID_SHA512

HashLen(h) ==
    CASE h = "sha256" -> 32
      [] h = "sha384" -> 48
      [] h = "sha512" -> 64

PssRestrictions == [hash : Hashes, mgf : Hashes, salt : {HashLen(h) : h \in Hashes}]

\* The RSASSA-PSS AlgorithmIdentifier the provider reads.
PssAlgorithmIdentifier(pss) ==
    TLV(48, TLV(6, OidContents(OID_RSASSA_PSS))
            \o TLV(48, TLV(160, TLV(48, TLV(6, OidContents(HashOid(pss.hash)))))
                       \o TLV(161, TLV(48, TLV(6, OidContents(OID_MGF1))
                                           \o TLV(48, TLV(6, OidContents(HashOid(pss.mgf))))))
                       \o TLV(162, TLV(2, <<pss.salt>>))))

PrivateKeyInfo(pss, k) ==
    TLV(48, TLV(2, <<0>>) \o PssAlgorithmIdentifier(pss) \o TLV(4, private_key_to_der(k)))

SubjectPublicKeyInfo(pss, k) ==
    TLV(48, PssAlgorithmIdentifier(pss) \o TLV(3, <<0>> \o public_key_to_der_pkcs1(k)))

NoKey == [ok |-> FALSE]

\* A plain RSA key carries no PSS restriction.
Unrestricted == [hash |-> "any"]

PKey(k, priv, pss) == [ok |-> TRUE, key |-> k, priv |-> priv, pss |-> pss]

\* The keys the provider reads, each with the bytes it reads it from.
PrivateKeyInfos ==
    {[bytes |-> PrivateKeyInfo(pss, k), pkey |-> PKey(k, TRUE, pss)] :
        k \in Keys, pss \in PssRestrictions}
    \cup {[bytes |-> private_key_to_der(k), pkey |-> PKey(k, TRUE, Unrestricted)] : k \in Keys}

SubjectPublicKeyInfos ==
    {[bytes |-> SubjectPublicKeyInfo(pss, k), pkey |-> PKey(k, FALSE, pss)] :
        k \in Keys, pss \in PssRestrictions}

\* PKey::private_key_from_der: a PSS PrivateKeyInfo, or a bare RSAPrivateKey.
PKey_private_key_from_der(bytes) ==
    IF \E c \in PrivateKeyInfos : c.bytes = bytes
        THEN (CHOOSE c \in PrivateKeyInfos : c.bytes = bytes).pkey
    ELSE NoKey

\* PKey::public_key_from_der: a PSS SubjectPublicKeyInfo.
PKey_public_key_from_der(bytes) ==
    IF \E c \in SubjectPublicKeyInfos : c.bytes = bytes
        THEN (CHOOSE c \in SubjectPublicKeyInfos : c.bytes = bytes).pkey
    ELSE NoKey

\* Rsa::generate(bits) then PKey::from_rsa: a plain RSA key of that length.
Rsa_generate(bits) ==
    IF \E k \in Keys : k.bits = bits
        THEN PKey(CHOOSE k \in Keys : k.bits = bits, TRUE, Unrestricted)
    ELSE NoKey

\* rsa.size(): the modulus length in bytes.
Rsa_size(pkey) == (pkey.key.bits + 7) \div 8

(***************************************************************************)
(* Signatures.  A signature names the key, scheme, digest and message it   *)
(* was made over; sound is FALSE once any of its bits was flipped, and     *)
(* wellformed is FALSE when it does not have the length of the modulus.    *)
(***************************************************************************)
Messages == {<<97, 98>>, <<97, 99>>}

Signature(pkey, md, message) ==
    [key |-> pkey.key.id, pss |-> pkey.pss, md |-> md, msg |-> message,
     sound |-> TRUE, wellformed |-> TRUE]

\* Signer::new(md, pkey), update(message), sign_to_vec(): [ok, sig].
Provider_sign(md, pkey, message) ==
    IF pkey.pss # Unrestricted /\ pkey.pss.hash # md THEN [ok |-> FALSE]
    ELSE [ok |-> TRUE, sig |-> Signature(pkey, md, message)]

\* Verifier::new(md, pkey), update(message), verify(signature): the answers
\* the provider can give: Ok(true), Ok(false) or an error.
Provider_verify(md, pkey, message, sig) ==
    IF pkey.pss # Unrestricted /\ pkey.pss.hash # md THEN {"Err"}
    ELSE IF ~sig.wellformed THEN {"Ok(false)", "Err"}
    ELSE IF /\ sig.sound
            /\ sig.key = pkey.key.id
            /\ sig.pss = pkey.pss
            /\ sig.md = md
            /\ sig.msg = message
        THEN {"Ok(true)"}
    ELSE {"Ok(false)"}

(***************************************************************************)
(* base64 (external crate): STANDARD pads with '=', URL_SAFE_NO_PAD uses   *)
(* '-' and '_' and no padding.  Text is a sequence of ASCII codes.         *)
(***************************************************************************)
B64Char(i, url) ==
    IF i < 26 THEN 65 + i
    ELSE IF i < 52 THEN 97 + (i - 26)
    ELSE IF i < 62 THEN 48 + (i - 52)
    ELSE IF i = 62 THEN (IF url THEN 45 ELSE 43)
    ELSE (IF url THEN 95 ELSE 47)

B64Index(c, url) ==
    IF c >= 65 /\ c <= 90 THEN c - 65
    ELSE IF c >= 97 /\ c <= 122 THEN c - 97 + 26
    ELSE IF c >= 48 /\ c <= 57 THEN c - 48 + 52
    ELSE IF c = (IF url THEN 45 ELSE 43) THEN 62
    ELSE IF c = (IF url THEN 95 ELSE 47) THEN 63
    ELSE -1

\* base64::encode_config(bytes, config): character j of the output.
base64_encode(bytes, url, pad) ==
    LET n == Len(bytes)
        at(i) == IF i <= n THEN bytes[i] ELSE 0
        sextet(s) ==
            LET g == 3 * (s \div 4)
            IN  CASE s % 4 = 0 -> at(g + 1) \div 4
                  [] s % 4 = 1 -> (at(g + 1) % 4) * 16 + at(g + 2) \div 16
                  [] s % 4 = 2 -> (at(g + 2) % 16) * 4 + at(g + 3) \div 64
                  [] s % 4 = 3 -> at(g + 3) % 64
        chars == (4 * n + 2) \div 3
        total == IF pad THEN 4 * ((n + 2) \div 3) ELSE chars
    IN  [j \in 1..total |-> IF j <= chars THEN B64Char(sextet(j - 1), url) ELSE 61]

\* Byte j of the decoding of unpadded text t.
B64DecodeFrom(t, url) ==
    LET v(i) == IF i <= Len(t) THEN B64Index(t[i], url) ELSE 0
        byte(i) ==
            LET g == 4 * (i \div 3)
            IN  CASE i % 3 = 0 -> v(g + 1) * 4 + v(g + 2) \div 16
                  [] i % 3 = 1 -> (v(g + 2) % 16) * 16 + v(g + 3) \div 4
                  [] i % 3 = 2 -> (v(g + 3) % 4) * 64 + v(g + 4)
    IN  [j \in 1..((Len(t) * 3) \div 4) |-> byte(j - 1)]

\* Whether unpadded text decodes: alphabet, length, and no stray trailing bits.
B64Valid(t, url) ==
    /\ \A i \in 1..Len(t) : B64Index(t[i], url) >= 0
    /\ Len(t) % 4 # 1
    /\ Len(t) % 4 = 2 => B64Index(t[Len(t)], url) % 16 = 0
    /\ Len(t) % 4 = 3 => B64Index(t[Len(t)], url) % 4 = 0

\* base64::decode_config(text, URL_SAFE_NO_PAD): [ok, bytes].
base64_decode_url(t) ==
    IF B64Valid(t, TRUE) THEN [ok |-> TRUE, bytes |-> B64DecodeFrom(t, TRUE)]
    ELSE [ok |-> FALSE, bytes |-> <<>>]

RECURSIVE StripPadding(_)
StripPadding(t) ==
    IF t # <<>> /\ t[Len(t)] = 61 THEN StripPadding(SubSeq(t, 1, Len(t) - 1)) ELSE t

\* The standard-alphabet decoding parse_pem applies to the body: [ok, bytes].
base64_decode_standard(t) ==
    LET u == StripPadding(t)
    IN  IF Len(t) - Len(u) <= 2 /\ B64Valid(u, FALSE)
            THEN [ok |-> TRUE, bytes |-> B64DecodeFrom(u, FALSE)]
        ELSE [ok |-> FALSE, bytes |-> <<>>]

(***************************************************************************)
(* PEM.  Labels and markers as ASCII codes.                                *)
(***************************************************************************)
PEM_BEGIN == <<45, 45, 45, 45, 45, 66, 69, 71, 73, 78, 32>>  \* "-----BEGIN "

PEM_END == <<45, 45, 45, 45, 45, 69, 78, 68, 32>>  \* "-----END "

PEM_DASHES == <<45, 45, 45, 45, 45>>  \* "-----"

CRLF == <<13, 10>>

LABEL_PRIVATE_KEY == <<80, 82, 73, 86, 65, 84, 69, 32, 75, 69, 89>>

LABEL_RSA_PSS_PRIVATE_KEY == <<82, 83, 65, 45, 80, 83, 83, 32, 80, 82, 73, 86, 65, 84, 69, 32, 75, 69, 89>>

LABEL_RSA_PRIVATE_KEY == <<82, 83, 65, 32, 80, 82, 73, 86, 65, 84, 69, 32, 75, 69, 89>>

LABEL_PUBLIC_KEY == <<80, 85, 66, 76, 73, 67, 32, 75, 69, 89>>

LABEL_RSA_PSS_PUBLIC_KEY == <<82, 83, 65, 45, 80, 83, 83, 32, 80, 85, 66, 76, 73, 67, 32, 75, 69, 89>>

LABEL_RSA_PUBLIC_KEY == <<82, 83, 65, 32, 80, 85, 66, 76, 73, 67, 32, 75, 69, 89>>

LABEL_EC_PRIVATE_KEY == <<69, 67, 32, 80, 82, 73, 86, 65, 84, 69, 32, 75, 69, 89>>

LABEL_CERTIFICATE == <<67, 69, 82, 84, 73, 70, 73, 67, 65, 84, 69>>

\* The base64 text on one line.
PemOneLine(der, i, n) == der \o CRLF

\* The loop of lines 734-737: lines i .. of at most 64 characters, each with CRLF.
RECURSIVE PemLines(_, _, _)
PemLines(der, i, n) ==
    IF i >= n THEN <<>>
    ELSE SubSeq(der, i * 64 + 1, IF (i + 1) * 64 < Len(der) THEN (i + 1) * 64 ELSE Len(der))
         \o CRLF \o PemLines(der, i + 1, n)

\* The PEM text the three exporters build around a label.
PemEncode(label, bytes) ==
    LET der == base64_encode(bytes, FALSE, TRUE)
    IN  PEM_BEGIN \o label \o PEM_DASHES \o CRLF
        \o PemLines(der, 0, (Len(der) + 64 - 1) \div 64)
        \o PEM_END \o label \o PEM_DASHES \o CRLF

IsSpace(c) == c \in {32, 9, 13, 10}

RECURSIVE TrimLeft(_)
TrimLeft(t) == IF t # <<>> /\ IsSpace(t[1]) THEN TrimLeft(Tail(t)) ELSE t

RECURSIVE TrimRight(_)
TrimRight(t) ==
    IF t # <<>> /\ IsSpace(t[Len(t)]) THEN TrimRight(SubSeq(t, 1, Len(t) - 1)) ELSE t

StartsWithAt(t, pat, i) ==
    /\ i + Len(pat) - 1 <= Len(t)
    /\ \A j \in 1..Len(pat) : t[i + j - 1] = pat[j]

\* The first index >= i where pat starts in t, or 0.
IndexOf(t, pat, i) ==
    LET hits == {j \in i..(Len(t) - Len(pat) + 1) : StartsWithAt(t, pat, j)}
    IN  IF hits = {} THEN 0 ELSE CHOOSE j \in hits : \A k \in hits : j <= k

\* crate::util::parse_pem: [ok, alg, data].
parse_pem(input) ==
    LET t == TrimRight(TrimLeft(input))
        bad == [ok |-> FALSE, alg |-> <<>>, data |-> <<>>]
        lab == Len(PEM_BEGIN) + 1
        close == IndexOf(t, PEM_DASHES, lab)
    IN  IF ~StartsWithAt(t, PEM_BEGIN, 1) \/ close = 0 THEN bad
        ELSE
            LET label == SubSeq(t, lab, close - 1)
                trailer == PEM_END \o label \o PEM_DASHES
                body == close + Len(PEM_DASHES)
                stop == IndexOf(t, trailer, body)
            IN  IF stop = 0 \/ stop + Len(trailer) - 1 # Len(t) THEN bad
                ELSE
                    LET dec == base64_decode_standard(
                                   SelectSeq(SubSeq(t, body, stop - 1), LAMBDA c : ~IsSpace(c)))
                    IN  IF dec.ok THEN [ok |-> TRUE, alg |-> label, data |-> dec.bytes]
                        ELSE bad

(***************************************************************************)
(* Results.  Every fallible call answers an outcome: ok with the value, or *)
(* the JoseError kind with the cause that was bailed with.  provider lists *)
(* the provider calls the call made, in order.                             *)
(***************************************************************************)
NoObj == [type |-> "NoObj"]

Ok(ret, provider) ==
    [ok |-> TRUE, kind |-> None, cause |-> <<>>, provider |-> provider, ret |-> ret]

Err(kind, cause, provider) ==
    [ok |-> FALSE, kind |-> kind, cause |-> <<cause>>, provider |-> provider, ret |-> NoObj]

\* The failure of a key parameter: which one, and how.
ErrParameter(p, state) ==
    [ok |-> FALSE, kind |-> "InvalidKeyFormat", cause |-> <<p, state>>, provider |-> <<>>,
     ret |-> NoObj]

Call(fn, arg) == [fn |-> fn, arg |-> arg]

RsaPssKeyPair(alg, pkey) == [type |-> "KeyPair", algorithm |-> alg, pkey |-> pkey]

RsaPssJwsSigner(alg, pkey, key_id) ==
    [type |-> "Signer", algorithm |-> alg, private_key |-> pkey, key_id |-> key_id]

\* RsaPssJwsVerifier::new
RsaPssJwsVerifier(alg, pkey, key_id) ==
    [type |-> "Verifier", algorithm |-> alg, public_key |-> pkey, key_id |-> key_id,
     acceptable_criticals |-> {}]

\* check_key: TRUE when the key passes.
check_key(pkey) == ~(Rsa_size(pkey) * 8 < 2048)

\* generate_keypair without the guard on bits.
generate_keypair_unguarded(alg, bits, provider_ok) ==
    LET calls == <<Call("Rsa::generate", bits)>>
    IN  IF ~provider_ok \/ ~Rsa_generate(bits).ok
            THEN Err("InvalidKeyFormat", "provider", calls)
        ELSE Ok(RsaPssKeyPair(alg, Rsa_generate(bits)), calls)

\* generate_keypair; provider_ok is whether Rsa::generate succeeds.
generate_keypair(alg, bits, provider_ok) ==
    IF bits < 2048 THEN Err("InvalidKeyFormat", "key length must be 2048 or more.", <<>>)
    ELSE LET calls == <<Call("Rsa::generate", bits)>>
         IN  IF ~provider_ok \/ ~Rsa_generate(bits).ok
                 THEN Err("InvalidKeyFormat", "provider", calls)
             ELSE Ok(RsaPssKeyPair(alg, Rsa_generate(bits)), calls)

\* The tail shared by the private-key constructors: parse, check_key, bind.
LoadPrivate(alg, pkcs8) ==
    LET calls == <<Call("PKey::private_key_from_der", pkcs8)>>
        pkey == PKey_private_key_from_der(pkcs8)
    IN  IF ~pkey.ok THEN Err("InvalidKeyFormat", "provider", calls)
        ELSE IF ~check_key(pkey)
            THEN Err("InvalidKeyFormat", "key length must be 2048 or more.", calls)
        ELSE Ok(RsaPssKeyPair(alg, pkey), calls)

\* The tail shared by the public-key constructors.
LoadPublic(alg, pkcs8, key_id) ==
    LET calls == <<Call("PKey::public_key_from_der", pkcs8)>>
        pkey == PKey_public_key_from_der(pkcs8)
    IN  IF ~pkey.ok THEN Err("InvalidKeyFormat", "provider", calls)
        ELSE IF ~check_key(pkey)
            THEN Err("InvalidKeyFormat", "key length must be 2048 or more.", calls)
        ELSE Ok(RsaPssJwsVerifier(alg, pkey, key_id), calls)

\* keypair_from_der handing its input to the provider as it came.
keypair_from_der_unwrapped(alg, input) == LoadPrivate(alg, input)

keypair_from_der(alg, input) ==
    LET found == detect_pkcs8(alg, input, FALSE)
    IN  IF found = "Err" THEN Err("InvalidKeyFormat", "reader", <<>>)
        ELSE LoadPrivate(alg, IF found = "Ok(true)" THEN input
                              ELSE to_pkcs8(alg, input, FALSE))

\* keypair_from_pem with the "PRIVATE KEY" body wrapped when the recognizer refuses it.
keypair_from_pem_fallback(alg, input) ==
    LET pem == parse_pem(input)
    IN  IF ~pem.ok THEN Err("InvalidKeyFormat", "parse_pem", <<>>)
        ELSE IF pem.alg \in {LABEL_PRIVATE_KEY, LABEL_RSA_PSS_PRIVATE_KEY}
            THEN LET found == detect_pkcs8(alg, pem.data, FALSE)
                 IN  IF found = "Err" THEN Err("InvalidKeyFormat", "reader", <<>>)
                     ELSE IF found # "Ok(true)"
                         THEN LoadPrivate(alg, to_pkcs8(alg, pem.data, FALSE))
                     ELSE LoadPrivate(alg, pem.data)
        ELSE IF pem.alg = LABEL_RSA_PRIVATE_KEY
            THEN LoadPrivate(alg, to_pkcs8(alg, pem.data, FALSE))
        ELSE Err("InvalidKeyFormat", "Inappropriate algorithm", <<>>)

keypair_from_pem(alg, input) ==
    LET pem == parse_pem(input)
    IN  IF ~pem.ok THEN Err("InvalidKeyFormat", "parse_pem", <<>>)
        ELSE IF pem.alg \in {LABEL_PRIVATE_KEY, LABEL_RSA_PSS_PRIVATE_KEY}
            THEN LET found == detect_pkcs8(alg, pem.data, FALSE)
                 IN  IF found = "Err" THEN Err("InvalidKeyFormat", "reader", <<>>)
                     ELSE IF found # "Ok(true)"
                         THEN Err("InvalidKeyFormat", "Invalid PEM contents.", <<>>)
                     ELSE LoadPrivate(alg, pem.data)
        ELSE IF pem.alg = LABEL_RSA_PRIVATE_KEY
            THEN LoadPrivate(alg, to_pkcs8(alg, pem.data, FALSE))
        ELSE Err("InvalidKeyFormat", "Inappropriate algorithm", <<>>)

\* A signer from a key pair outcome: signer_from_der / signer_from_pem.
SignerOf(keypair) ==
    IF ~keypair.ok THEN keypair
    ELSE Ok(RsaPssJwsSigner(keypair.ret.algorithm, keypair.ret.pkey, None),
            keypair.provider)

signer_from_der(alg, input) == SignerOf(keypair_from_der(alg, input))

signer_from_pem(alg, input) == SignerOf(keypair_from_pem(alg, input))

verifier_from_der(alg, input) ==
    LET found == detect_pkcs8(alg, input, TRUE)
    IN  IF found = "Err" THEN Err("InvalidKeyFormat", "reader", <<>>)
        ELSE LoadPublic(alg, IF found = "Ok(true)" THEN input
                             ELSE to_pkcs8(alg, input, TRUE), None)

verifier_from_pem(alg, input) ==
    LET pem == parse_pem(input)
    IN  IF ~pem.ok THEN Err("InvalidKeyFormat", "parse_pem", <<>>)
        ELSE IF pem.alg \in {LABEL_PUBLIC_KEY, LABEL_RSA_PSS_PUBLIC_KEY}
            THEN LET found == detect_pkcs8(alg, pem.data, TRUE)
                 IN  IF found = "Err" THEN Err("InvalidKeyFormat", "reader", <<>>)
                     ELSE IF found # "Ok(true)"
                         THEN Err("InvalidKeyFormat", "Invalid PEM contents.", <<>>)
                     ELSE LoadPublic(alg, pem.data, None)
        ELSE IF pem.alg = LABEL_RSA_PUBLIC_KEY
            THEN LoadPublic(alg, to_pkcs8(alg, pem.data, TRUE), None)
        ELSE Err("InvalidKeyFormat", "Inappropriate algorithm", <<>>)

(***************************************************************************)
(* Jwk (crate::jwk): a dictionary with typed accessors.  An absent header  *)
(* parameter is None; key_ops is a sequence of strings; a key parameter is *)
(* absent, a JSON string (its text) or some other JSON value.              *)
(***************************************************************************)
Absent == [t |-> "absent"]

JsonString(text) == [t |-> "string", v |-> text]

JsonNumber == [t |-> "number"]

JsonArray(vals) == [t |-> "array", v |-> vals]

Jwk_new(kty) ==
    [kty |-> kty, use |-> None, key_ops |-> Absent, alg |-> None, kid |-> None,
     params |-> [p \in Range(PrivateParams) |-> Absent]]

\* How the match on jwk.parameter(p) ends: "ok", or the cause it bails with.
ParameterState(jwk, p) ==
    LET val == jwk.params[p]
    IN  CASE val.t = "string" ->
                 IF base64_decode_url(val.v).ok THEN "ok" ELSE "base64"
          [] val.t = "absent" -> "is required"
          [] OTHER -> "must be a string"

\* The first of the named parameters that does not decode, or 0.
FirstBadParameter(jwk, names) ==
    LET bad == {i \in 1..Len(names) : ParameterState(jwk, names[i]) # "ok"}
    IN  IF bad = {} THEN 0 ELSE CHOOSE i \in bad : \A j \in bad : i <= j

Decoded(jwk, p) ==
    IF jwk.params[p].t = "string" THEN base64_decode_url(jwk.params[p].v).bytes ELSE <<>>

\* The four header matches of lines 166-184 / 323-341: the cause bailed with, or None.
HeaderCause(alg, jwk, op) ==
    IF jwk.kty # key_type(alg) THEN "kty"
    ELSE IF jwk.use # None /\ jwk.use # "sig" THEN "use"
    ELSE IF jwk.key_ops # Absent /\ op \notin Range(jwk.key_ops.v) THEN "key_ops"
    ELSE IF jwk.alg # None /\ jwk.alg # name(alg) THEN "alg"
    ELSE None

\* The signer's key_ops match asking for "verify".
signer_header_cause_verify(alg, jwk) == HeaderCause(alg, jwk, "verify")

signer_header_cause(alg, jwk) == HeaderCause(alg, jwk, "sign")

verifier_header_cause(alg, jwk) == HeaderCause(alg, jwk, "verify")

\* The private parameters the signer requires, without qi.
signer_required_no_qi == <<"n", "e", "d", "p", "q", "dp", "dq">>

signer_required == PrivateParams

verifier_required == PublicParams

\* The constructors leaving the JWK's kid behind.
key_id_of_jwk_dropped(jwk) == None

\* jwk.key_id() of lines 185 and 365.
key_id_of_jwk(jwk) == jwk.kid

signer_from_jwk(alg, jwk) ==
    LET cause == signer_header_cause(alg, jwk)
        bad == FirstBadParameter(jwk, signer_required)
    IN  IF cause # None THEN Err("InvalidKeyFormat", cause, <<>>)
        ELSE IF bad # 0
            THEN ErrParameter(signer_required[bad], ParameterState(jwk, signer_required[bad]))
        ELSE
            LET calls == <<Begin(Sequence), [op |-> "u8", val |-> 0]>>
                         \o [i \in 1..8 |-> [op |-> "int",
                                             bytes |-> Decoded(jwk, PrivateParams[i])]]
                         \o <<End>>
                raw == BuilderBuild(BuilderRun(BuilderNew, calls, 1))
                loaded == LoadPrivate(alg, to_pkcs8(alg, raw, FALSE))
            IN  IF ~loaded.ok THEN loaded
                ELSE Ok(RsaPssJwsSigner(alg, loaded.ret.pkey, key_id_of_jwk(jwk)),
                        loaded.provider)

verifier_from_jwk(alg, jwk) ==
    LET cause == verifier_header_cause(alg, jwk)
        bad == FirstBadParameter(jwk, verifier_required)
    IN  IF cause # None THEN Err("InvalidKeyFormat", cause, <<>>)
        ELSE IF bad # 0
            THEN ErrParameter(verifier_required[bad],
                              ParameterState(jwk, verifier_required[bad]))
        ELSE
            LET calls == <<Begin(Sequence),
                           [op |-> "int", bytes |-> Decoded(jwk, "n")],
                           [op |-> "int", bytes |-> Decoded(jwk, "e")],
                           End>>
                raw == BuilderBuild(BuilderRun(BuilderNew, calls, 1))
            IN  LoadPublic(alg, to_pkcs8(alg, raw, TRUE), key_id_of_jwk(jwk))

(***************************************************************************)
(* RsaPssKeyPair exporters.                                                *)
(***************************************************************************)
to_raw_private_key(kp) == private_key_to_der(kp.pkey.key)

to_raw_public_key(kp) == public_key_to_der_pkcs1(kp.pkey.key)

to_der_private_key(kp) == to_pkcs8(kp.algorithm, to_raw_private_key(kp), FALSE)

to_der_public_key(kp) == to_pkcs8(kp.algorithm, to_raw_public_key(kp), TRUE)

to_traditional_pem_private_key(kp) ==
    PemEncode(LABEL_RSA_PSS_PRIVATE_KEY, to_der_private_key(kp))

to_pem_private_key(kp) == PemEncode(LABEL_PRIVATE_KEY, to_der_private_key(kp))

to_pem_public_key(kp) == PemEncode(LABEL_PUBLIC_KEY, to_der_public_key(kp))

\* to_jwk without the key operations.
to_jwk_without_key_ops(kp, private, public) ==
    [kty |-> "RSA",
     use |-> "sig",
     key_ops |-> Absent,
     alg |-> name(kp.algorithm),
     kid |-> None,
     params |-> [p \in Range(PrivateParams) |->
                    IF p \in {"n", "e"} \/ private
                        THEN JsonString(base64_encode(Component(kp.pkey.key, p), TRUE, FALSE))
                    ELSE Absent]]

\* to_jwk writing the private parameters whatever `private` says.
to_jwk_all_parameters(kp, private, public) ==
    [kty |-> "RSA",
     use |-> "sig",
     key_ops |-> JsonArray((IF private THEN <<"sign">> ELSE <<>>)
                           \o (IF public THEN <<"verify">> ELSE <<>>)),
     alg |-> name(kp.algorithm),
     kid |-> None,
     params |-> [p \in Range(PrivateParams) |->
                    JsonString(base64_encode(Component(kp.pkey.key, p), TRUE, FALSE))]]

to_jwk(kp, private, public) ==
    [kty |-> "RSA",
     use |-> "sig",
     key_ops |-> JsonArray((IF private THEN <<"sign">> ELSE <<>>)
                           \o (IF public THEN <<"verify">> ELSE <<>>)),
     alg |-> name(kp.algorithm),
     kid |-> None,
     params |-> [p \in Range(PrivateParams) |->
                    IF p \in {"n", "e"} \/ private
                        THEN JsonString(base64_encode(Component(kp.pkey.key, p), TRUE, FALSE))
                    ELSE Absent]]

to_jwk_private_key(kp) == to_jwk(kp, TRUE, FALSE)

to_jwk_public_key(kp) == to_jwk(kp, FALSE, TRUE)

to_jwk_keypair(kp) == to_jwk(kp, TRUE, TRUE)

(***************************************************************************)
(* Signing and verifying.                                                  *)
(***************************************************************************)
sign(signer, message) ==
    LET calls == <<Call("Signer::sign_to_vec", message)>>
        made == Provider_sign(message_digest(signer.algorithm), signer.private_key, message)
    IN  IF ~made.ok THEN Err("InvalidSignature", "provider", calls)
        ELSE Ok(made.sig, calls)

\* verify; answer is what Verifier::verify(signature) returns.  The `?` of
\* line 866 leaves on an error only: the boolean it unwraps is dropped.
verify(verifier, message, signature, answer) ==
    LET calls == <<Call("Verifier::verify", answer)>>
    IN  IF answer = "Err" THEN Err("InvalidSignature", "provider", calls)
        ELSE Ok("unit", calls)

(***************************************************************************)
(* The accessors of a signer and of a verifier (lines 777-794, 837-854).   *)
(***************************************************************************)
algorithm(o) == o.algorithm

key_id(o) == o.key_id

\* set_key_id leaving the key id as it was.
set_key_id_ignored(o, id) == o

set_key_id(o, id) == [o EXCEPT !.key_id = id]

remove_key_id(o) == [o EXCEPT !.key_id = None]

(***************************************************************************)
(* Inputs.                                                                 *)
(***************************************************************************)
MaxBodyLen == 2

BodyBytes == {0, 48, 255}

RECURSIVE SeqsUpTo(_, _)
SeqsUpTo(S, n) ==
    IF n = 0 THEN {<<>>}
    ELSE LET shorter == SeqsUpTo(S, n - 1)
         IN  shorter \cup {Append(q, x) : q \in {r \in shorter : Len(r) = n - 1}, x \in S}

\* Key bodies handed to to_pkcs8: arbitrary short byte strings and PKCS#1 keys.
Bodies ==
    SeqsUpTo(BodyBytes, MaxBodyLen)
        \cup {private_key_to_der(k) : k \in Keys}
        \cup {public_key_to_der_pkcs1(k) : k \in Keys}

\* The PSS parameters each algorithm stands for.
PssOf(alg) ==
    [hash |-> message_digest(alg), mgf |-> message_digest(alg), salt |-> HashLen(message_digest(alg))]

TestKey == CHOOSE k \in Keys : k.bits = 2048

\* Wrapped keys as other tools write them, described by what they hold.
WrappedKeys ==
    {[form |-> "wrapped", bytes |-> PrivateKeyInfo(pss, TestKey), pss |-> pss, key |-> TestKey,
      is_public |-> FALSE] : pss \in PssRestrictions}
    \cup {[form |-> "wrapped", bytes |-> SubjectPublicKeyInfo(pss, TestKey), pss |-> pss, key |-> TestKey,
           is_public |-> TRUE] : pss \in PssRestrictions}

\* Bare PKCS#1 keys.
BareKeys ==
    {[form |-> "bare", bytes |-> private_key_to_der(k), pss |-> Unrestricted, key |-> k,
      is_public |-> FALSE] : k \in Keys}
    \cup {[form |-> "bare", bytes |-> public_key_to_der_pkcs1(k), pss |-> Unrestricted, key |-> k,
           is_public |-> TRUE] : k \in Keys}

\* Neither: empty input, an empty SEQUENCE, a wrapper cut inside its parameters.
BrokenKeys ==
    {[form |-> "broken", bytes |-> b, pss |-> Unrestricted, key |-> [id |-> 0, bits |-> 0],
      is_public |-> FALSE] :
        b \in {<<>>, <<48, 0>>,
               SubSeq(PrivateKeyInfo(PssOf("PS256"), TestKey), 1, 40)}}

CodecInputs == WrappedKeys \cup BareKeys \cup BrokenKeys

\* What a call record remembers of the input it was made on.
Described(in) ==
    [kind |-> "input", form |-> in.form, pss |-> in.pss, key |-> in.key,
     is_public |-> in.is_public]

(***************************************************************************)
(* The recognizer and the emitter called on their own.                     *)
(***************************************************************************)
NoCall == [op |-> "none"]

\* The calls are pure: each set below holds every call of its kind with its answer.
ToPkcs8Calls ==
    {[op |-> "to_pkcs8", alg |-> alg, input |-> input, is_public |-> is_public,
      ret |-> to_pkcs8(alg, input, is_public)] :
        alg \in Algorithms, input \in Bodies, is_public \in BOOLEAN}

DetectInputCalls ==
    {[op |-> "detect_pkcs8", alg |-> alg, input |-> in.bytes, is_public |-> is_public,
      of |-> Described(in),
      ret |-> detect_pkcs8(alg, in.bytes, is_public)] :
        alg \in Algorithms, in \in CodecInputs, is_public \in BOOLEAN}

ToPkcs8 ==
    /\ \E call \in ToPkcs8Calls : last' = call
    /\ obj' = NoObj
    /\ UNCHANGED <<cur_keypair, cur_signer, cur_verifier, cur_signature>>

\* detect_pkcs8 on the bytes the preceding to_pkcs8 call returned.
DetectWrapped ==
    /\ last.op = "to_pkcs8"
    /\ \E alg \in Algorithms, is_public \in BOOLEAN :
           last' = [op |-> "detect_pkcs8", alg |-> alg, input |-> last.ret,
                    is_public |-> is_public,
                    of |-> [kind |-> "to_pkcs8", alg |-> last.alg, raw |-> last.input,
                            is_public |-> last.is_public],
                    ret |-> detect_pkcs8(alg, last.ret, is_public)]
    /\ obj' = NoObj
    /\ UNCHANGED <<cur_keypair, cur_signer, cur_verifier, cur_signature>>

\* detect_pkcs8 on a key read from elsewhere.
DetectInput ==
    /\ \E call \in DetectInputCalls : last' = call
    /\ obj' = NoObj
    /\ UNCHANGED <<cur_keypair, cur_signer, cur_verifier, cur_signature>>

(***************************************************************************)
(* The DER constructors.  obj is what the caller holds afterwards.         *)
(***************************************************************************)
KeypairFromDerCalls ==
    {[op |-> "keypair_from_der", alg |-> alg, input |-> in.bytes, of |-> Described(in),
      out |-> keypair_from_der(alg, in.bytes)] : alg \in Algorithms, in \in CodecInputs}

SignerFromDerCalls ==
    {[op |-> "signer_from_der", alg |-> alg, input |-> in.bytes, of |-> Described(in),
      out |-> signer_from_der(alg, in.bytes)] : alg \in Algorithms, in \in CodecInputs}

VerifierFromDerCalls ==
    {[op |-> "verifier_from_der", alg |-> alg, input |-> in.bytes, of |-> Described(in),
      out |-> verifier_from_der(alg, in.bytes)] : alg \in Algorithms, in \in CodecInputs}

KeypairFromDer ==
    /\ \E call \in KeypairFromDerCalls : last' = call /\ obj' = call.out.ret
    /\ UNCHANGED <<cur_keypair, cur_signer, cur_verifier, cur_signature>>

SignerFromDer ==
    /\ \E call \in SignerFromDerCalls : last' = call /\ obj' = call.out.ret
    /\ UNCHANGED <<cur_keypair, cur_signer, cur_verifier, cur_signature>>

VerifierFromDer ==
    /\ \E call \in VerifierFromDerCalls : last' = call /\ obj' = call.out.ret
    /\ UNCHANGED <<cur_keypair, cur_signer, cur_verifier, cur_signature>>

(***************************************************************************)
(* The PEM constructors.                                                   *)
(***************************************************************************)
PemLabels ==
    {LABEL_PRIVATE_KEY, LABEL_RSA_PSS_PRIVATE_KEY, LABEL_RSA_PRIVATE_KEY,
     LABEL_PUBLIC_KEY, LABEL_RSA_PSS_PUBLIC_KEY, LABEL_RSA_PUBLIC_KEY,
     LABEL_EC_PRIVATE_KEY, LABEL_CERTIFICATE}

\* PEM bodies: the wrapped key of each algorithm, the bare keys, an empty SEQUENCE.
PemBodies ==
    {in \in WrappedKeys : \E alg \in Algorithms : in.pss = PssOf(alg)}
        \cup {in \in BareKeys : in.key.bits \in {1024, 2048}}
        \cup {in \in BrokenKeys : in.bytes = <<48, 0>>}

PemInputs ==
    {[text |-> PemEncode(label, in.bytes),
      of |-> [kind |-> "pem", label |-> label, body |-> in.bytes, form |-> in.form,
              pss |-> in.pss, key |-> in.key, is_public |-> in.is_public]] :
        label \in PemLabels, in \in PemBodies}
    \cup {[text |-> LABEL_PRIVATE_KEY,
           of |-> [kind |-> "text", label |-> <<>>, body |-> <<>>, form |-> "broken",
                   pss |-> Unrestricted, key |-> [id |-> 0, bits |-> 0],
                   is_public |-> FALSE]]}

KeypairFromPemCalls ==
    {[op |-> "keypair_from_pem", alg |-> alg, input |-> in.text, of |-> in.of,
      out |-> keypair_from_pem(alg, in.text)] : alg \in Algorithms, in \in PemInputs}

SignerFromPemCalls ==
    {[op |-> "signer_from_pem", alg |-> alg, input |-> in.text, of |-> in.of,
      out |-> signer_from_pem(alg, in.text)] : alg \in Algorithms, in \in PemInputs}

VerifierFromPemCalls ==
    {[op |-> "verifier_from_pem", alg |-> alg, input |-> in.text, of |-> in.of,
      out |-> verifier_from_pem(alg, in.text)] : alg \in Algorithms, in \in PemInputs}

KeypairFromPem ==
    /\ \E call \in KeypairFromPemCalls : last' = call /\ obj' = call.out.ret
    /\ UNCHANGED <<cur_keypair, cur_signer, cur_verifier, cur_signature>>

SignerFromPem ==
    /\ \E call \in SignerFromPemCalls : last' = call /\ obj' = call.out.ret
    /\ UNCHANGED <<cur_keypair, cur_signer, cur_verifier, cur_signature>>

VerifierFromPem ==
    /\ \E call \in VerifierFromPemCalls : last' = call /\ obj' = call.out.ret
    /\ UNCHANGED <<cur_keypair, cur_signer, cur_verifier, cur_signature>>

(***************************************************************************)
(* The JWK constructors.                                                   *)
(***************************************************************************)
\* The parameters of key k as base64url strings: all of them, or n and e only.
JwkParams(k, private) ==
    [p \in Range(PrivateParams) |->
        IF p \in {"n", "e"} \/ private
            THEN JsonString(base64_encode(Component(k, p), TRUE, FALSE))
        ELSE Absent]

\* A parameter that is missing, not a string, or not base64url ('=' and '+').
BadValues == {Absent, JsonNumber, JsonString(<<77, 81, 61, 61>>), JsonString(<<43, 43>>)}

JwkHeaders ==
    [kty : {"RSA", "rsa", "EC"},
     use : {None, "sig", "enc"},
     key_ops : {Absent, JsonArray(<<>>), JsonArray(<<"sign">>), JsonArray(<<"verify">>),
                JsonArray(<<"sign", "verify">>), JsonArray(<<"encrypt">>)},
     alg : {None, "PS256", "RS256"}]

JwkOf(h, params) ==
    [kty |-> h.kty, use |-> h.use, key_ops |-> h.key_ops, alg |-> h.alg, kid |-> None,
     params |-> params]

PlainHeader == [kty |-> "RSA", use |-> None, key_ops |-> Absent, alg |-> None]

\* Every header over the parameters of the test key, and under the plain header
\* every key, and the test key with one parameter made bad.
JwkInputs ==
    {JwkOf(h, JwkParams(TestKey, private)) : h \in JwkHeaders, private \in BOOLEAN}
    \cup {JwkOf(PlainHeader, JwkParams(k, private)) : k \in Keys, private \in BOOLEAN}
    \cup {JwkOf(PlainHeader, [JwkParams(TestKey, private) EXCEPT ![p] = v]) :
            private \in BOOLEAN, p \in Range(PrivateParams), v \in BadValues}

SignerFromJwkCalls ==
    {[op |-> "signer_from_jwk", alg |-> alg, jwk |-> jwk,
      out |-> signer_from_jwk(alg, jwk)] : alg \in Algorithms, jwk \in JwkInputs}

VerifierFromJwkCalls ==
    {[op |-> "verifier_from_jwk", alg |-> alg, jwk |-> jwk,
      out |-> verifier_from_jwk(alg, jwk)] : alg \in Algorithms, jwk \in JwkInputs}

SignerFromJwk ==
    /\ \E call \in SignerFromJwkCalls : last' = call /\ obj' = call.out.ret
    /\ UNCHANGED <<cur_keypair, cur_signer, cur_verifier, cur_signature>>

VerifierFromJwk ==
    /\ \E call \in VerifierFromJwkCalls : last' = call /\ obj' = call.out.ret
    /\ UNCHANGED <<cur_keypair, cur_signer, cur_verifier, cur_signature>>

(***************************************************************************)
(* Generate, export, import, sign, verify: the sequence of the tests of    *)
(* lines 883-985.  cur_keypair is the generated pair; cur_signer and       *)
(* cur_verifier are what was imported from its exports, with the export    *)
(* they came from; cur_signature is what cur_signer last signed.           *)
(***************************************************************************)
Unbound == [via |-> "none", it |-> NoObj]

NoSignature == [made |-> FALSE]

GenerateBits == {k.bits : k \in Keys}

PrivateExports ==
    {"to_raw_private_key", "to_der_private_key", "to_pem_private_key",
     "to_traditional_pem_private_key", "to_jwk_private_key"}

PublicExports ==
    {"to_raw_public_key", "to_der_public_key", "to_pem_public_key", "to_jwk_public_key"}

\* The signer constructor matching each private export, on that export.
ImportSignerFrom(kp, via) ==
    CASE via = "to_raw_private_key" -> signer_from_der(kp.algorithm, to_raw_private_key(kp))
      [] via = "to_der_private_key" -> signer_from_der(kp.algorithm, to_der_private_key(kp))
      [] via = "to_pem_private_key" -> signer_from_pem(kp.algorithm, to_pem_private_key(kp))
      [] via = "to_traditional_pem_private_key" ->
             signer_from_pem(kp.algorithm, to_traditional_pem_private_key(kp))
      [] via = "to_jwk_private_key" -> signer_from_jwk(kp.algorithm, to_jwk_private_key(kp))

\* The verifier constructor matching each public export, on that export.
ImportVerifierFrom(kp, via) ==
    CASE via = "to_raw_public_key" -> verifier_from_der(kp.algorithm, to_raw_public_key(kp))
      [] via = "to_der_public_key" -> verifier_from_der(kp.algorithm, to_der_public_key(kp))
      [] via = "to_pem_public_key" -> verifier_from_pem(kp.algorithm, to_pem_public_key(kp))
      [] via = "to_jwk_public_key" -> verifier_from_jwk(kp.algorithm, to_jwk_public_key(kp))

GenerateKeypairCalls ==
    {[op |-> "generate_keypair", alg |-> alg, bits |-> bits, provider_ok |-> provider_ok,
      out |-> generate_keypair(alg, bits, provider_ok)] :
        alg \in Algorithms, bits \in GenerateBits, provider_ok \in BOOLEAN}

GeneratedKeyPairs == {call.out.ret : call \in {c \in GenerateKeypairCalls : c.out.ok}}

ImportSignerCalls ==
    {[op |-> "import_signer", alg |-> kp.algorithm, keypair |-> kp, via |-> via,
      out |-> ImportSignerFrom(kp, via)] : kp \in GeneratedKeyPairs, via \in PrivateExports}

ImportVerifierCalls ==
    {[op |-> "import_verifier", alg |-> kp.algorithm, keypair |-> kp, via |-> via,
      out |-> ImportVerifierFrom(kp, via)] : kp \in GeneratedKeyPairs, via \in PublicExports}

\* generate_keypair: the caller starts over with the pair it returned.
GenerateKeypair ==
    /\ \E call \in GenerateKeypairCalls :
           /\ last' = call
           /\ obj' = call.out.ret
           /\ cur_keypair' = call.out.ret
    /\ cur_signer' = Unbound
    /\ cur_verifier' = Unbound
    /\ cur_signature' = NoSignature

ImportSigner ==
    /\ cur_keypair # NoObj
    /\ \E call \in ImportSignerCalls :
           /\ call.keypair = cur_keypair
           /\ last' = call
           /\ obj' = call.out.ret
           /\ cur_signer' = [via |-> call.via, it |-> call.out.ret]
    /\ cur_signature' = NoSignature
    /\ UNCHANGED <<cur_keypair, cur_verifier>>

ImportVerifier ==
    /\ cur_keypair # NoObj
    /\ \E call \in ImportVerifierCalls :
           /\ call.keypair = cur_keypair
           /\ last' = call
           /\ obj' = call.out.ret
           /\ cur_verifier' = [via |-> call.via, it |-> call.out.ret]
    /\ UNCHANGED <<cur_keypair, cur_signer, cur_signature>>

Sign ==
    /\ cur_signer.it # NoObj
    /\ \E message \in Messages :
           LET out == sign(cur_signer.it, message)
           IN  /\ last' = [op |-> "sign", message |-> message, out |-> out]
               /\ cur_signature' = IF out.ok THEN [made |-> TRUE, sig |-> out.ret]
                                   ELSE NoSignature
    /\ obj' = NoObj
    /\ UNCHANGED <<cur_keypair, cur_signer, cur_verifier>>

\* What a caller may present as the signature: the one made, the one made with
\* one bit flipped, or the one made cut short.
Presented(sig) ==
    {sig, [sig EXCEPT !.sound = FALSE], [sig EXCEPT !.wellformed = FALSE]}

Verify ==
    /\ cur_verifier.it # NoObj
    /\ cur_signature.made
    /\ \E message \in Messages, signature \in Presented(cur_signature.sig) :
           \E answer \in Provider_verify(message_digest(cur_verifier.it.algorithm),
                                         cur_verifier.it.public_key, message, signature) :
               last' = [op |-> "verify", message |-> message, signature |-> signature,
                        answer |-> answer,
                        out |-> verify(cur_verifier.it, message, signature, answer)]
    /\ obj' = NoObj
    /\ UNCHANGED <<cur_keypair, cur_signer, cur_verifier, cur_signature>>

(***************************************************************************)
(* A signer and a verifier built from a JWK, a DER key or a PEM text, and  *)
(* the key id operations on them.  Beside the object (it), a slot keeps    *)
(* the object as it was built and the more recent of the set_key_id and    *)
(* remove_key_id calls made on it.                                         *)
(***************************************************************************)
KeyIds == {"kid-1", "kid-2"}

NotCalled == [op |-> "none", arg |-> None]

Built(via, o) == [via |-> via, it |-> o, built |-> o, recent |-> NotCalled]

WithKid(jwk, kid) == [jwk EXCEPT !.kid = kid]

BuildSignerCalls ==
    {[op |-> "signer_from_jwk", alg |-> alg, kid |-> kid,
      out |-> signer_from_jwk(alg, WithKid(JwkOf(PlainHeader, JwkParams(TestKey, TRUE)), kid))] :
        alg \in Algorithms, kid \in KeyIds \cup {None}}
    \cup {[op |-> "signer_from_der", alg |-> alg, kid |-> None,
           out |-> signer_from_der(alg, private_key_to_der(TestKey))] : alg \in Algorithms}
    \cup {[op |-> "signer_from_pem", alg |-> alg, kid |-> None,
           out |-> signer_from_pem(alg, PemEncode(LABEL_RSA_PRIVATE_KEY,
                                                  private_key_to_der(TestKey)))] :
            alg \in Algorithms}

BuildVerifierCalls ==
    {[op |-> "verifier_from_jwk", alg |-> alg, kid |-> kid,
      out |-> verifier_from_jwk(alg, WithKid(JwkOf(PlainHeader, JwkParams(TestKey, FALSE)),
                                             kid))] :
        alg \in Algorithms, kid \in KeyIds \cup {None}}
    \cup {[op |-> "verifier_from_der", alg |-> alg, kid |-> None,
           out |-> verifier_from_der(alg, public_key_to_der_pkcs1(TestKey))] :
            alg \in Algorithms}
    \cup {[op |-> "verifier_from_pem", alg |-> alg, kid |-> None,
           out |-> verifier_from_pem(alg, PemEncode(LABEL_RSA_PUBLIC_KEY,
                                                    public_key_to_der_pkcs1(TestKey)))] :
            alg \in Algorithms}

BuildSigner ==
    /\ \E call \in BuildSignerCalls :
           /\ last' = call
           /\ obj' = call.out.ret
           /\ cur_signer' = Built(call.op, call.out.ret)
    /\ cur_signature' = NoSignature
    /\ UNCHANGED <<cur_keypair, cur_verifier>>

BuildVerifier ==
    /\ \E call \in BuildVerifierCalls :
           /\ last' = call
           /\ obj' = call.out.ret
           /\ cur_verifier' = Built(call.op, call.out.ret)
    /\ UNCHANGED <<cur_keypair, cur_signer, cur_signature>>

SignerSetKeyId ==
    /\ cur_signer.it # NoObj
    /\ \E id \in KeyIds :
           /\ cur_signer' = [cur_signer EXCEPT !.it = set_key_id(cur_signer.it, id),
                                               !.recent = [op |-> "set", arg |-> id]]
           /\ last' = [op |-> "set_key_id", on |-> "signer", arg |-> id]
    /\ obj' = NoObj
    /\ UNCHANGED <<cur_keypair, cur_verifier, cur_signature>>

SignerRemoveKeyId ==
    /\ cur_signer.it # NoObj
    /\ cur_signer' = [cur_signer EXCEPT !.it = remove_key_id(cur_signer.it),
                                        !.recent = [op |-> "remove", arg |-> None]]
    /\ last' = [op |-> "remove_key_id", on |-> "signer"]
    /\ obj' = NoObj
    /\ UNCHANGED <<cur_keypair, cur_verifier, cur_signature>>

SignerKeyId ==
    /\ cur_signer.it # NoObj
    /\ last' = [op |-> "key_id", on |-> "signer", ret |-> key_id(cur_signer.it)]
    /\ obj' = NoObj
    /\ UNCHANGED <<cur_keypair, cur_signer, cur_verifier, cur_signature>>

VerifierSetKeyId ==
    /\ cur_verifier.it # NoObj
    /\ \E id \in KeyIds :
           /\ cur_verifier' = [cur_verifier EXCEPT !.it = set_key_id(cur_verifier.it, id),
                                                   !.recent = [op |-> "set", arg |-> id]]
           /\ last' = [op |-> "set_key_id", on |-> "verifier", arg |-> id]
    /\ obj' = NoObj
    /\ UNCHANGED <<cur_keypair, cur_signer, cur_signature>>

VerifierRemoveKeyId ==
    /\ cur_verifier.it # NoObj
    /\ cur_verifier' = [cur_verifier EXCEPT !.it = remove_key_id(cur_verifier.it),
                                            !.recent = [op |-> "remove", arg |-> None]]
    /\ last' = [op |-> "remove_key_id", on |-> "verifier"]
    /\ obj' = NoObj
    /\ UNCHANGED <<cur_keypair, cur_signer, cur_signature>>

VerifierKeyId ==
    /\ cur_verifier.it # NoObj
    /\ last' = [op |-> "key_id", on |-> "verifier", ret |-> key_id(cur_verifier.it)]
    /\ obj' = NoObj
    /\ UNCHANGED <<cur_keypair, cur_signer, cur_verifier, cur_signature>>

(***************************************************************************)
(* detect_pkcs8 on damaged and on extended wrappers: every cut of a        *)
(* wrapper, every change of one byte of its header, and its header         *)
(* followed by something else than the body.                               *)
(***************************************************************************)
SampleBody == <<48, 0>>

Wrapper(alg, is_public) == to_pkcs8(alg, SampleBody, is_public)

\* The wrapper up to and including the [2] salt INTEGER.
Header(alg, is_public) ==
    Take(Wrapper(alg, is_public), detect_stop(alg, Wrapper(alg, is_public), is_public).pos)

DamageBytes == {0, 2, 31, 129, 255}

Tails == {<<>>, <<4>>, <<4, 2, 48>>, <<3, 130>>, <<255, 255, 255>>,
          <<4, 2, 48, 0, 0, 0>>, <<0, 0>>}

DetectCall(kind, alg, input, is_public) ==
    [op |-> "detect_pkcs8", kind |-> kind, alg |-> alg, input |-> input,
     is_public |-> is_public,
     stop |-> detect_stop(alg, input, is_public),
     ret |-> detect_pkcs8(alg, input, is_public)]

DetectCutCalls ==
    UNION {{DetectCall("cut", alg, Take(Wrapper(alg, is_public), n), is_public) :
                n \in 0..Len(Wrapper(alg, is_public))} :
           alg \in Algorithms, is_public \in BOOLEAN}

\* The wrapper with the byte at i replaced by another one.
Damaged(alg, is_public, i) ==
    {[Wrapper(alg, is_public) EXCEPT ![i] = b] :
        b \in DamageBytes \ {Wrapper(alg, is_public)[i]}}

DetectDamagedCalls ==
    UNION {{DetectCall("damaged", "PS256", input, is_public) :
                input \in UNION {Damaged("PS256", is_public, i) :
                                     i \in 1..Len(Header("PS256", is_public))}} :
           is_public \in BOOLEAN}

DetectExtendedCalls ==
    {DetectCall("extended", alg, Header(walg, wpub) \o tail, is_public) :
        alg \in {"PS256", "PS512"}, walg \in {"PS256", "PS512"},
        is_public \in BOOLEAN, wpub \in BOOLEAN, tail \in Tails}

DetectCut ==
    /\ \E call \in DetectCutCalls : last' = call
    /\ obj' = NoObj
    /\ UNCHANGED <<cur_keypair, cur_signer, cur_verifier, cur_signature>>

DetectDamaged ==
    /\ \E call \in DetectDamagedCalls : last' = call
    /\ obj' = NoObj
    /\ UNCHANGED <<cur_keypair, cur_signer, cur_verifier, cur_signature>>

DetectExtended ==
    /\ \E call \in DetectExtendedCalls : last' = call
    /\ obj' = NoObj
    /\ UNCHANGED <<cur_keypair, cur_signer, cur_verifier, cur_signature>>

(***************************************************************************)
(* The PEM exporters, on key pairs of many sizes: the length of the DER    *)
(* encoding, and with it the last line of the PEM text, follows the size   *)
(* of the modulus.                                                         *)
(***************************************************************************)
MaxExtraOctets == 50

LongKeys == {[id |-> 5, bits |-> 3072 + 8 * w] : w \in 1..MaxExtraOctets}

ExportKeyPairs ==
    {RsaPssKeyPair(alg, PKey(k, TRUE, Unrestricted)) :
        alg \in Algorithms, k \in {key \in Keys : key.bits >= 2048} \cup LongKeys}

ToPemPrivateKeyCalls ==
    {[op |-> "to_pem_private_key", keypair |-> kp, label |-> LABEL_PRIVATE_KEY,
      der |-> to_der_private_key(kp), ret |-> to_pem_private_key(kp)] :
        kp \in ExportKeyPairs}

ToPemPublicKeyCalls ==
    {[op |-> "to_pem_public_key", keypair |-> kp, label |-> LABEL_PUBLIC_KEY,
      der |-> to_der_public_key(kp), ret |-> to_pem_public_key(kp)] :
        kp \in ExportKeyPairs}

ToTraditionalPemPrivateKeyCalls ==
    {[op |-> "to_traditional_pem_private_key", keypair |-> kp,
      label |-> LABEL_RSA_PSS_PRIVATE_KEY,
      der |-> to_der_private_key(kp), ret |-> to_traditional_pem_private_key(kp)] :
        kp \in ExportKeyPairs}

ToPemPrivateKey ==
    /\ \E call \in ToPemPrivateKeyCalls : last' = call
    /\ obj' = NoObj
    /\ UNCHANGED <<cur_keypair, cur_signer, cur_verifier, cur_signature>>

ToPemPublicKey ==
    /\ \E call \in ToPemPublicKeyCalls : last' = call
    /\ obj' = NoObj
    /\ UNCHANGED <<cur_keypair, cur_signer, cur_verifier, cur_signature>>

ToTraditionalPemPrivateKey ==
    /\ \E call \in ToTraditionalPemPrivateKeyCalls : last' = call
    /\ obj' = NoObj
    /\ UNCHANGED <<cur_keypair, cur_signer, cur_verifier, cur_signature>>

(***************************************************************************)
(* The JWK exporters of a key pair, and the JWK constructors of every      *)
(* algorithm on what they emitted.                                         *)
(***************************************************************************)
JwkExports == {"to_jwk_private_key", "to_jwk_public_key", "to_jwk_keypair"}

\* Key pairs as generate_keypair and keypair_from_der make them: the key
\* handle unrestricted, or restricted to the algorithm's PSS parameters.
JwkKeyPairs ==
    UNION {{RsaPssKeyPair(alg, PKey(k, TRUE, pss)) : pss \in {Unrestricted, PssOf(alg)}} :
           alg \in Algorithms, k \in {key \in Keys : key.bits >= 2048}}

ExportJwk(kp, via) ==
    CASE via = "to_jwk_private_key" -> to_jwk_private_key(kp)
      [] via = "to_jwk_public_key" -> to_jwk_public_key(kp)
      [] via = "to_jwk_keypair" -> to_jwk_keypair(kp)

ToJwkCalls ==
    {[op |-> via, keypair |-> kp, ret |-> ExportJwk(kp, via)] :
        kp \in JwkKeyPairs, via \in JwkExports}

ToJwk ==
    /\ \E call \in ToJwkCalls : last' = call
    /\ obj' = NoObj
    /\ UNCHANGED <<cur_keypair, cur_signer, cur_verifier, cur_signature>>

SignerFromExportedJwk ==
    /\ last.op \in JwkExports
    /\ \E alg \in Algorithms :
           LET out == signer_from_jwk(alg, last.ret)
           IN  /\ last' = [op |-> "signer_from_jwk", alg |-> alg, jwk |-> last.ret,
                           of |-> [via |-> last.op, keypair |-> last.keypair], out |-> out]
               /\ obj' = out.ret
    /\ UNCHANGED <<cur_keypair, cur_signer, cur_verifier, cur_signature>>

VerifierFromExportedJwk ==
    /\ last.op \in JwkExports
    /\ \E alg \in Algorithms :
           LET out == verifier_from_jwk(alg, last.ret)
           IN  /\ last' = [op |-> "verifier_from_jwk", alg |-> alg, jwk |-> last.ret,
                           of |-> [via |-> last.op, keypair |-> last.keypair], out |-> out]
               /\ obj' = out.ret
    /\ UNCHANGED <<cur_keypair, cur_signer, cur_verifier, cur_signature>>

(***************************************************************************)
(* Specifications.                                                         *)
(***************************************************************************)
Init ==
    /\ last = NoCall
    /\ obj = NoObj
    /\ cur_keypair = NoObj
    /\ cur_signer = Unbound
    /\ cur_verifier = Unbound
    /\ cur_signature = NoSignature

\* The key life cycle.
Next ==
    \/ GenerateKeypair
    \/ ImportSigner
    \/ ImportVerifier
    \/ Sign
    \/ Verify

Spec == Init /\ [][Next]_vars

\* The PKCS#8 recognizer and emitter, and the DER constructors built on them.
NextCodec ==
    \/ ToPkcs8
    \/ DetectWrapped
    \/ DetectInput
    \/ KeypairFromDer
    \/ SignerFromDer
    \/ VerifierFromDer

SpecCodec == Init /\ [][NextCodec]_vars

\* The PEM constructors.
NextPem ==
    \/ KeypairFromPem
    \/ SignerFromPem
    \/ VerifierFromPem

SpecPem == Init /\ [][NextPem]_vars

\* The JWK constructors.
NextJwk ==
    \/ SignerFromJwk
    \/ VerifierFromJwk

SpecJwk == Init /\ [][NextJwk]_vars

\* A signer and a verifier in use: built, given and stripped of key ids, used.
NextKeyId ==
    \/ BuildSigner
    \/ BuildVerifier
    \/ SignerSetKeyId
    \/ SignerRemoveKeyId
    \/ SignerKeyId
    \/ VerifierSetKeyId
    \/ VerifierRemoveKeyId
    \/ VerifierKeyId
    \/ Sign
    \/ Verify

SpecKeyId == Init /\ [][NextKeyId]_vars

\* The recognizer on damaged and extended wrappers.
NextDetect ==
    \/ DetectCut
    \/ DetectDamaged
    \/ DetectExtended

SpecDetect == Init /\ [][NextDetect]_vars

\* The exporters of a key pair.
NextExport ==
    \/ ToPemPrivateKey
    \/ ToPemPublicKey
    \/ ToTraditionalPemPrivateKey

SpecExport == Init /\ [][NextExport]_vars

\* Every import constructor.
NextImport ==
    \/ KeypairFromDer
    \/ SignerFromDer
    \/ VerifierFromDer
    \/ KeypairFromPem
    \/ SignerFromPem
    \/ VerifierFromPem
    \/ SignerFromJwk
    \/ VerifierFromJwk

SpecImport == Init /\ [][NextImport]_vars

\* A key pair exported as JWK and the JWK read back.
NextJwkExport ==
    \/ ToJwk
    \/ SignerFromExportedJwk
    \/ VerifierFromExportedJwk

SpecJwkExport == Init /\ [][NextJwkExport]_vars

(***************************************************************************)
(* Properties of the recognizer and the emitter.                           *)
(***************************************************************************)
IsDetect == last.op = "detect_pkcs8"

IsDetectOfWrapped == IsDetect /\ last.of.kind = "to_pkcs8"

IsDetectOfInput == IsDetect /\ last.of.kind = "input"

\* C3: for every algorithm, flag and body, detect_pkcs8 answers true on what
\* to_pkcs8 of the same algorithm and flag emitted.
C3_DetectAcceptsOwnWrapper ==
    (IsDetectOfWrapped /\ last.of.alg = last.alg /\ last.of.is_public = last.is_public)
        => last.ret = "Ok(true)"

C3_Witness ==
    /\ IsDetectOfWrapped
    /\ last.alg = "PS384"
    /\ last.of.alg = "PS384"
    /\ last.is_public /\ last.of.is_public
    /\ last.of.raw = <<255, 0>>
    /\ last.ret = "Ok(true)"

\* C4: detect_pkcs8 of one algorithm answers false on what to_pkcs8 of another
\* emitted, and whatever wrapper it answers true on carries the querying
\* algorithm's hash in [0], the same hash inside [1], and its salt length in [2].
C4_DetectRejectsOtherAlgorithm ==
    /\ (IsDetectOfWrapped /\ last.of.alg # last.alg /\ last.of.is_public = last.is_public)
           => last.ret = "Ok(false)"
    /\ (IsDetectOfInput /\ last.of.form = "wrapped" /\ last.ret = "Ok(true)")
           => last.of.pss = PssOf(last.alg)

C4_Witness ==
    /\ IsDetectOfWrapped
    /\ last.alg = "PS512"
    /\ last.of.alg = "PS256"
    /\ ~last.is_public /\ ~last.of.is_public
    /\ last.of.raw = <<48, 0>>
    /\ last.ret = "Ok(false)"

IsDerImport == last.op \in {"keypair_from_der", "signer_from_der", "verifier_from_der"}

WantsPublic == last.op = "verifier_from_der"

IsBareKey == last.of.kind = "input" /\ last.of.form = "bare"

\* C5: detect_pkcs8 answers false on a bare PKCS#1 key of the queried kind, and
\* the DER constructors hand the provider the wrapped key, not the input.
C5_BareKeyIsNotDetected ==
    /\ (IsDetectOfInput /\ IsBareKey /\ last.of.is_public = last.is_public)
           => last.ret = "Ok(false)"
    /\ (IsDerImport /\ IsBareKey /\ last.of.is_public = WantsPublic)
           => /\ Len(last.out.provider) = 1
              /\ last.out.provider[1].arg # last.input
              /\ last.out.provider[1].arg =
                     IF WantsPublic
                         THEN SubjectPublicKeyInfo(PssOf(last.alg), last.of.key)
                     ELSE PrivateKeyInfo(PssOf(last.alg), last.of.key)

C5_Witness ==
    /\ last.op = "signer_from_der"
    /\ IsBareKey
    /\ ~last.of.is_public
    /\ last.of.key = TestKey
    /\ last.out.ok

(***************************************************************************)
(* Properties of the constructors.                                         *)
(***************************************************************************)
Failed(out) == ~out.ok /\ out.kind = "InvalidKeyFormat" /\ out.ret = NoObj

\* The key inside a key pair, signer or verifier.
KeyOf(o) ==
    CASE o.type = "KeyPair" -> o.pkey.key
      [] o.type = "Signer" -> o.private_key.key
      [] o.type = "Verifier" -> o.public_key.key

\* C6: a DER constructor called on a key whose modulus is shorter than 2048
\* bits fails with InvalidKeyFormat, and no key pair, signer or verifier holds
\* a key whose modulus is shorter than 2048 bits.
C6_NoKeyBelow2048Bits ==
    /\ (IsDerImport /\ last.of.form # "broken" /\ last.of.key.bits < 2048)
           => Failed(last.out)
    /\ obj # NoObj => KeyOf(obj).bits >= 2048

\* A bare 2047-bit private key was imported as a signer.
C6_Witness ==
    /\ last.op = "signer_from_der"
    /\ IsBareKey
    /\ last.of.key.bits = 2047
    /\ last.out.ok
    /\ obj.type = "Signer"
    /\ KeyOf(obj).bits = 2047

IsPemImport == last.op \in {"keypair_from_pem", "signer_from_pem", "verifier_from_pem"}

NoProviderCall == last.out.provider = <<>>

\* What the PEM constructor of last hands the recognizer and the provider.
PemWantsPublic == last.op = "verifier_from_pem"

PemParser ==
    IF PemWantsPublic THEN "PKey::public_key_from_der" ELSE "PKey::private_key_from_der"

PemPkcs8Labels ==
    IF PemWantsPublic THEN {LABEL_PUBLIC_KEY, LABEL_RSA_PSS_PUBLIC_KEY}
    ELSE {LABEL_PRIVATE_KEY, LABEL_RSA_PSS_PRIVATE_KEY}

PemPkcs1Label == IF PemWantsPublic THEN LABEL_RSA_PUBLIC_KEY ELSE LABEL_RSA_PRIVATE_KEY

PemDetected == detect_pkcs8(last.alg, last.of.body, PemWantsPublic) = "Ok(true)"

\* C10: a PEM constructor decides on the label alone.  Under the two PKCS#8
\* labels of its kind the body goes to the provider as it is when detect_pkcs8
\* accepts it for the caller's algorithm, and otherwise the call fails with
\* InvalidKeyFormat without a provider call; under the PKCS#1 label of its kind
\* the body is wrapped by to_pkcs8 whatever it is; under every other label the
\* call fails with InvalidKeyFormat without a provider call.
C10_PemLabelDispatch ==
    (IsPemImport /\ last.of.kind = "pem") =>
        /\ (last.of.label \in PemPkcs8Labels /\ PemDetected)
               => last.out.provider = <<Call(PemParser, last.of.body)>>
        /\ (last.of.label \in PemPkcs8Labels /\ ~PemDetected)
               => Failed(last.out) /\ NoProviderCall
        /\ last.of.label = PemPkcs1Label
               => last.out.provider =
                      <<Call(PemParser, to_pkcs8(last.alg, last.of.body, PemWantsPublic))>>
        /\ last.of.label \notin (PemPkcs8Labels \cup {PemPkcs1Label})
               => Failed(last.out) /\ NoProviderCall
        /\ last.out.ok => last.out.provider # <<>>

\* "PRIVATE KEY" around a bare PKCS#1 key is refused, not wrapped.
C10_Witness ==
    /\ last.op = "signer_from_pem"
    /\ last.of.kind = "pem"
    /\ last.of.label = LABEL_PRIVATE_KEY
    /\ last.of.form = "bare"
    /\ last.of.key = TestKey
    /\ ~last.of.is_public
    /\ Failed(last.out)
    /\ NoProviderCall

IsJwkImport == last.op \in {"signer_from_jwk", "verifier_from_jwk"}

RequiredOp == IF last.op = "signer_from_jwk" THEN "sign" ELSE "verify"

HeaderRuleBroken ==
    \/ last.jwk.kty # "RSA"
    \/ last.jwk.use \notin {None, "sig"}
    \/ last.jwk.key_ops.t = "array" /\ RequiredOp \notin Range(last.jwk.key_ops.v)
    \/ last.jwk.alg \notin {None, name(last.alg)}

HeaderCauses == {<<"kty">>, <<"use">>, <<"key_ops">>, <<"alg">>}

\* C8: a JWK constructor fails over the header exactly when kty is not "RSA",
\* use is present and not "sig", key_ops is present and lacks the operation of
\* the constructor, or alg is present and not the algorithm's name; then it
\* fails with InvalidKeyFormat.  It never fails over an absent header parameter.
C8_JwkHeaderRules ==
    IsJwkImport =>
        /\ HeaderRuleBroken => Failed(last.out) /\ last.out.cause \in HeaderCauses
        /\ ~HeaderRuleBroken => last.out.cause \notin HeaderCauses

\* An empty key_ops list is refused.
C8_Witness ==
    /\ last.op = "verifier_from_jwk"
    /\ last.jwk.kty = "RSA"
    /\ last.jwk.use = "sig"
    /\ last.jwk.key_ops = JsonArray(<<>>)
    /\ last.jwk.alg = None
    /\ Failed(last.out)
    /\ last.out.cause = <<"key_ops">>

ParameterValid(val) == val.t = "string" /\ base64_decode_url(val.v).ok

Required == IF last.op = "signer_from_jwk" THEN PrivateParams ELSE PublicParams

RequiredParameterBad == \E i \in 1..Len(Required) : ~ParameterValid(last.jwk.params[Required[i]])

PublicOnly(jwk) ==
    [jwk EXCEPT !.params = [p \in Range(PrivateParams) |->
                               IF p \in {"n", "e"} THEN jwk.params[p] ELSE Absent]]

\* C9: signer_from_jwk fails with InvalidKeyFormat, without a provider call,
\* when one of n, e, d, p, q, dp, dq, qi is missing, not a string or not
\* base64url; verifier_from_jwk does so for n and e, and answers as it does on
\* the same JWK without d, p, q, dp, dq, qi.
C9_JwkRequiredParameters ==
    IsJwkImport =>
        /\ RequiredParameterBad => Failed(last.out) /\ NoProviderCall
        /\ (~HeaderRuleBroken /\ ~RequiredParameterBad) => last.out.provider # <<>>
        /\ last.op = "verifier_from_jwk"
               => last.out = verifier_from_jwk(last.alg, PublicOnly(last.jwk))

\* A signer refused for a qi that is a number.
C9_Witness ==
    /\ last.op = "signer_from_jwk"
    /\ ~HeaderRuleBroken
    /\ last.jwk.params["qi"] = JsonNumber
    /\ \A p \in Range(PrivateParams) \ {"qi"} : ParameterValid(last.jwk.params[p])
    /\ Failed(last.out)
    /\ NoProviderCall

(***************************************************************************)
(* Properties of the key life cycle.                                       *)
(***************************************************************************)
\* C7: generate_keypair below 2048 bits fails with InvalidKeyFormat, cause
\* "key length must be 2048 or more", without a provider call; at 2048 bits or
\* more, when the provider generates the key, it returns a key pair of that
\* length bound to the algorithm it was called on.
C7_GenerateKeypairFloor ==
    last.op = "generate_keypair" =>
        /\ last.bits < 2048
               => /\ Failed(last.out)
                  /\ last.out.cause = <<"key length must be 2048 or more.">>
                  /\ NoProviderCall
        /\ (last.bits >= 2048 /\ last.provider_ok)
               => /\ last.out.ok
                  /\ obj = RsaPssKeyPair(last.alg, Rsa_generate(last.bits))
                  /\ cur_keypair = obj
                  /\ last.out.provider = <<Call("Rsa::generate", last.bits)>>

C7_Witness ==
    /\ last.op = "generate_keypair"
    /\ last.bits = 2047
    /\ last.provider_ok
    /\ Failed(last.out)
    /\ NoProviderCall

IsVerify == last.op = "verify"

\* C1: verify succeeds when the provider answers that the signature matches,
\* and fails with InvalidSignature on every other answer of the provider.
C1_VerifyFailsUnlessMatch ==
    IsVerify =>
        IF last.answer = "Ok(true)" THEN last.out.ok
        ELSE ~last.out.ok /\ last.out.kind = "InvalidSignature"

\* verify succeeded on a signature with one bit flipped.
C1_Witness ==
    /\ IsVerify
    /\ ~last.signature.sound
    /\ last.signature.wellformed
    /\ last.message = last.signature.msg
    /\ last.answer = "Ok(false)"
    /\ last.out.ok

IsGenuine == last.signature = cur_signature.sig /\ last.message = cur_signature.sig.msg

\* C2: from a generated key pair, the signer constructor matching each private
\* export and the verifier constructor matching each public export succeed and
\* bind the pair's key and algorithm, and the verifier's provider accepts what
\* the signer signed, so verify succeeds.
C2_ExportImportRoundTrip ==
    /\ last.op = "import_signer"
           => /\ last.out.ok
              /\ obj.type = "Signer"
              /\ obj.algorithm = cur_keypair.algorithm
              /\ KeyOf(obj) = KeyOf(cur_keypair)
    /\ last.op = "import_verifier"
           => /\ last.out.ok
              /\ obj.type = "Verifier"
              /\ obj.algorithm = cur_keypair.algorithm
              /\ KeyOf(obj) = KeyOf(cur_keypair)
    /\ last.op = "sign" => last.out.ok
    /\ (IsVerify /\ IsGenuine) => last.answer = "Ok(true)" /\ last.out.ok

C2_Witness ==
    /\ IsVerify
    /\ IsGenuine
    /\ cur_keypair.algorithm = "PS512"
    /\ cur_signer.via = "to_jwk_private_key"
    /\ cur_verifier.via = "to_pem_public_key"
    /\ last.out.ok

(***************************************************************************)
(* Properties of the key id.                                               *)
(***************************************************************************)
IsBuildFromJwk == last.op \in {"signer_from_jwk", "verifier_from_jwk"}

IsBuildFromDerOrPem ==
    last.op \in {"signer_from_der", "signer_from_pem", "verifier_from_der", "verifier_from_pem"}

\* C11: a signer or verifier built from a JWK has the JWK's kid as its key id,
\* and none when the JWK has none; one built from DER or PEM has none.
C11_KeyIdFromJwkOnly ==
    /\ (IsBuildFromJwk /\ last.out.ok) => key_id(obj) = last.kid
    /\ (IsBuildFromDerOrPem /\ last.out.ok) => key_id(obj) = None

C11_Witness ==
    /\ last.op = "verifier_from_jwk"
    /\ last.kid = "kid-2"
    /\ last.out.ok
    /\ obj.type = "Verifier"
    /\ key_id(obj) = "kid-2"

IsBuiltSlot(slot) == slot.it # NoObj /\ slot.via # "none"

\* The key id a slot's object must report: the argument of the most recent
\* set_key_id when no remove_key_id came after it, none when remove_key_id
\* was the most recent, the key id at construction when neither was called.
ExpectedKeyId(slot) ==
    CASE slot.recent.op = "set" -> slot.recent.arg
      [] slot.recent.op = "remove" -> None
      [] OTHER -> key_id(slot.built)

\* C17: after any sequence of set_key_id, remove_key_id, sign/verify and
\* key_id calls, key_id() returns the most recent set_key_id argument, none
\* after a more recent remove_key_id, the construction-time value otherwise;
\* the algorithm, the key and the verifier's acceptable criticals (empty at
\* construction) never change.
C17_KeyIdFollowsLastCall ==
    /\ IsBuiltSlot(cur_signer) =>
           /\ key_id(cur_signer.it) = ExpectedKeyId(cur_signer)
           /\ algorithm(cur_signer.it) = algorithm(cur_signer.built)
           /\ cur_signer.it.private_key = cur_signer.built.private_key
    /\ IsBuiltSlot(cur_verifier) =>
           /\ key_id(cur_verifier.it) = ExpectedKeyId(cur_verifier)
           /\ algorithm(cur_verifier.it) = algorithm(cur_verifier.built)
           /\ cur_verifier.it.public_key = cur_verifier.built.public_key
           /\ cur_verifier.built.acceptable_criticals = {}
           /\ cur_verifier.it.acceptable_criticals = {}
    /\ (last.op = "key_id" /\ last.on = "signer") => last.ret = ExpectedKeyId(cur_signer)
    /\ (last.op = "key_id" /\ last.on = "verifier") => last.ret = ExpectedKeyId(cur_verifier)

C17_Witness ==
    /\ last.op = "key_id"
    /\ last.on = "signer"
    /\ last.ret = "kid-2"
    /\ cur_signer.via = "signer_from_jwk"
    /\ key_id(cur_signer.built) = "kid-1"
    /\ cur_signer.recent = [op |-> "set", arg |-> "kid-2"]
    /\ cur_signature.made
    /\ IsBuiltSlot(cur_verifier)
    /\ cur_verifier.recent.op = "remove"
    /\ key_id(cur_verifier.built) = "kid-1"

(***************************************************************************)
(* Properties of detect_pkcs8 on damaged input.                            *)
(***************************************************************************)
\* C12: detect_pkcs8 is total: on every byte string (empty, cut at any
\* position, malformed, making next(), to_u8() or to_object_identifier()
\* fail) and either is_public it returns Ok(true) or Ok(false), never an error.
C12_DetectIsTotal ==
    IsDetect => last.ret \in {"Ok(true)", "Ok(false)"}

C12_Witness ==
    /\ IsDetect
    /\ last.kind = "damaged"
    /\ last.stop.cause = "to_object_identifier: Err"
    /\ last.ret = "Ok(false)"

IsMismatch == last.stop.cause \in {"next: None", "other type", "other value"}

IsReaderError == last.stop.cause \in ReaderErrors

\* C14 as stated: a reader error that is not a mismatch (a byte-level
\* truncation) comes out of detect_pkcs8 as an error, every semantic mismatch
\* as false.
C14_ReaderErrorSurfaces ==
    IsDetect =>
        /\ IsReaderError => last.ret = "Err"
        /\ IsMismatch => last.ret = "Ok(false)"

\* C14, amended: detect_pkcs8 answers false on every reader error, a
\* byte-level truncation included, exactly as on every semantic mismatch; no
\* reader error comes out of it as an error.
C14_ReaderErrorIsFalse ==
    IsDetect =>
        /\ IsReaderError => last.ret = "Ok(false)"
        /\ IsMismatch => last.ret = "Ok(false)"
        /\ (last.kind = "cut" /\ Len(last.input) < Len(Header(last.alg, last.is_public)))
               => last.ret = "Ok(false)"

C14_Witness ==
    /\ IsDetect
    /\ last.kind = "cut"
    /\ last.alg = "PS384"
    /\ last.is_public
    /\ Len(last.input) = Len(Header("PS384", TRUE)) - 1
    /\ last.stop.cause = "next: Err"
    /\ last.stop.matched = Len(detect_template("PS384", TRUE)) - 1
    /\ last.ret = "Ok(false)"

\* The inputs of the recognizer that begin as the last input does, up to the
\* offset where its walk stopped.
SamePrefixCalls ==
    {c \in DetectCutCalls \cup DetectDamagedCalls \cup DetectExtendedCalls :
        /\ c.alg = last.alg
        /\ c.is_public = last.is_public
        /\ Len(c.input) >= last.stop.pos
        /\ Take(c.input, last.stop.pos) = Take(last.input, last.stop.pos)}

\* C16: the answer of detect_pkcs8 depends on the input up to and including
\* the [2] salt INTEGER only: once that has matched it answers true whatever
\* follows (no body, a cut body, other bytes, no closing of the outer
\* sequences), and every input with the same bytes up to there gets the same
\* answer.
C16_DetectStopsAtSalt ==
    (IsDetect /\ last.stop.cause = "matched") =>
        /\ last.ret = "Ok(true)"
        /\ detect_pkcs8(last.alg, Take(last.input, last.stop.pos), last.is_public) = "Ok(true)"
        /\ \A tail \in Tails :
               detect_pkcs8(last.alg, Take(last.input, last.stop.pos) \o tail,
                            last.is_public) = "Ok(true)"
        /\ \A c \in SamePrefixCalls : c.ret = last.ret

C16_Witness ==
    /\ IsDetect
    /\ last.kind = "extended"
    /\ last.alg = "PS512"
    /\ ~last.is_public
    /\ last.input = Header("PS512", FALSE) \o <<255, 255, 255>>
    /\ last.stop.pos = Len(Header("PS512", FALSE))
    /\ last.ret = "Ok(true)"
    /\ Cardinality(SamePrefixCalls) > Cardinality(Tails)

(***************************************************************************)
(* Properties of the exported PEM text.                                    *)
(***************************************************************************)
IsPemExport ==
    last.op \in {"to_pem_private_key", "to_pem_public_key", "to_traditional_pem_private_key"}

\* The offsets of the CRLFs of a text, and the lines they end.
CrlfAt(text) == {i \in 1..(Len(text) - 1) : text[i] = 13 /\ text[i + 1] = 10}

NthCrlf(text, n) ==
    CHOOSE i \in CrlfAt(text) : Cardinality({j \in CrlfAt(text) : j < i}) = n - 1

LinesOf(text) ==
    [n \in 1..Cardinality(CrlfAt(text)) |->
        SubSeq(text, IF n = 1 THEN 1 ELSE NthCrlf(text, n - 1) + 2, NthCrlf(text, n) - 1)]

Ascii(name_) ==
    CASE name_ = "to_pem_private_key" -> LABEL_PRIVATE_KEY
      [] name_ = "to_pem_public_key" -> LABEL_PUBLIC_KEY
      [] name_ = "to_traditional_pem_private_key" -> LABEL_RSA_PSS_PRIVATE_KEY

\* C13: each PEM exporter emits "-----BEGIN <label>-----" CRLF, the standard
\* base64 of the PKCS#8 DER in ceil(len/64) lines, all but the last of 64
\* characters and the last of 1 to 64, each followed by CRLF, then
\* "-----END <label>-----" CRLF; the lines together are the base64 text; the
\* labels are PRIVATE KEY, PUBLIC KEY and RSA-PSS PRIVATE KEY.
C13_PemExportLayout ==
    IsPemExport =>
        LET text == last.ret
            b64 == base64_encode(last.der, FALSE, TRUE)
            lines == LinesOf(text)
            count == Len(lines) - 2
            body == [n \in 1..count |-> lines[n + 1]]
        IN  /\ Len(text) >= 2
            /\ SubSeq(text, Len(text) - 1, Len(text)) = CRLF
            /\ \A i \in 1..Len(text) :
                   text[i] \in {13, 10} => (i \in CrlfAt(text) \/ i - 1 \in CrlfAt(text))
            /\ count = (Len(b64) + 63) \div 64
            /\ count >= 1
            /\ lines[1] = PEM_BEGIN \o Ascii(last.op) \o PEM_DASHES
            /\ lines[Len(lines)] = PEM_END \o Ascii(last.op) \o PEM_DASHES
            /\ \A n \in 1..(count - 1) : Len(body[n]) = 64
            /\ Len(body[count]) \in 1..64
            /\ Flatten(body) = b64
            /\ base64_decode_standard(Flatten(body)) = [ok |-> TRUE, bytes |-> last.der]
            /\ last.der = to_pkcs8(last.keypair.algorithm,
                                   IF last.op = "to_pem_public_key"
                                       THEN to_raw_public_key(last.keypair)
                                   ELSE to_raw_private_key(last.keypair),
                                   last.op = "to_pem_public_key")

\* A text whose last base64 line is full, after another full line.
C13_Witness ==
    /\ IsPemExport
    /\ last.op = "to_traditional_pem_private_key"
    /\ Len(last.der) % 48 = 0
    /\ Len(LinesOf(last.ret)) >= 4
    /\ Len(LinesOf(last.ret)[Len(LinesOf(last.ret)) - 1]) = 64

(***************************************************************************)
(* Properties of the wrapper to_pkcs8 emits.                               *)
(***************************************************************************)
IsToPkcs8 == last.op = "to_pkcs8"

\* The digest and the salt length of each algorithm, as the claim lists them.
WrapperDigest(alg) ==
    CASE alg = "PS256" -> [oid |-> OID_SHA256, salt |-> 32]
      [] alg = "PS384" -> [oid |-> OID_SHA384, salt |-> 48]
      [] alg = "PS512" -> [oid |-> OID_SHA512, salt |-> 64]

Oid(oid) == TLV(6, OidContents(oid))

\* SEQUENCE { [INTEGER 0,] SEQUENCE { OID rsassa-pss, SEQUENCE { [0] { SEQUENCE
\* { OID digest } }, [1] { SEQUENCE { OID mgf1, SEQUENCE { OID digest } } },
\* [2] { INTEGER salt } } }, body }, written element by element.
WrapperOf(alg, body, is_public) ==
    LET d == WrapperDigest(alg)
        hash == TLV(160, TLV(48, Oid(d.oid)))
        mgf == TLV(161, TLV(48, Oid(OID_MGF1) \o TLV(48, Oid(d.oid))))
        salt == TLV(162, TLV(2, <<d.salt>>))
        algorithm_ == TLV(48, Oid(OID_RSASSA_PSS) \o TLV(48, hash \o mgf \o salt))
    IN  TLV(48, (IF is_public THEN <<>> ELSE TLV(2, <<0>>))
                \o algorithm_
                \o (IF is_public THEN TLV(3, <<0>> \o body) ELSE TLV(4, body)))

\* The number of scopes open after the first n builder calls.
OpenScopes(calls, n) ==
    Cardinality({i \in 1..n : calls[i].op = "begin"})
        - Cardinality({i \in 1..n : calls[i].op = "end"})

\* C15: to_pkcs8 is total and emits, for either flag and any body, the
\* SEQUENCE of an INTEGER 0 (private only), the rsassa-pss AlgorithmIdentifier
\* with the algorithm's digest in [0] and in [1] and its salt length in [2]
\* (SHA-256/32, SHA-384/48, SHA-512/64), and the body unchanged as OCTET
\* STRING (private) or BIT STRING with no unused bits (public); every begin()
\* has its end() before build().
C15_ToPkcs8Structure ==
    IsToPkcs8 =>
        LET calls == to_pkcs8_calls(last.alg, last.input, last.is_public)
        IN  /\ last.ret = WrapperOf(last.alg, last.input, last.is_public)
            /\ \A i \in 1..Len(last.ret) : last.ret[i] \in 0..255
            /\ \A n \in 1..Len(calls) : OpenScopes(calls, n) >= 0
            /\ \A n \in 1..(Len(calls) - 1) : OpenScopes(calls, n) >= 1
            /\ OpenScopes(calls, Len(calls)) = 0
            /\ Len(BuilderRun(BuilderNew, calls, 1)) = 1
            /\ digest(last.alg) = WrapperDigest(last.alg).oid
            /\ salt_len(last.alg) = WrapperDigest(last.alg).salt

C15_Witness ==
    /\ IsToPkcs8
    /\ last.alg = "PS384"
    /\ last.is_public
    /\ last.input = <<48, 255>>
    /\ last.ret = WrapperOf("PS384", <<48, 255>>, TRUE)
    /\ Len(last.ret) > Len(last.input) + 60

(***************************************************************************)
(* Properties of what the import constructors hand the provider.           *)
(***************************************************************************)
IsImport == IsDerImport \/ IsPemImport \/ IsJwkImport

ForVerifier == last.op \in {"verifier_from_der", "verifier_from_pem", "verifier_from_jwk"}

KeyParsers == {"PKey::private_key_from_der", "PKey::public_key_from_der"}

\* The bytes the constructor of last handed the provider's DER key parsers.
ParserCalls == {c \in Range(last.out.provider) : c.fn \in KeyParsers}

\* C18: what an import constructor hands the provider's DER key parser
\* satisfies detect_pkcs8 for the constructor's algorithm and role: it is the
\* input detect_pkcs8 accepted or an output of to_pkcs8, and an input that
\* detect_pkcs8 refused is never handed over as it came.
C18_ProviderGetsWrappedKeys ==
    IsImport =>
        /\ \A c \in ParserCalls :
               /\ c.fn = (IF ForVerifier THEN "PKey::public_key_from_der"
                          ELSE "PKey::private_key_from_der")
               /\ detect_pkcs8(last.alg, c.arg, ForVerifier) = "Ok(true)"
        /\ IsDerImport =>
               \A c \in ParserCalls :
                   c.arg = (IF detect_pkcs8(last.alg, last.input, ForVerifier) = "Ok(true)"
                                THEN last.input
                            ELSE to_pkcs8(last.alg, last.input, ForVerifier))
        /\ (IsPemImport /\ last.of.label \in PemPkcs8Labels) =>
               \A c \in ParserCalls :
                   /\ c.arg = last.of.body
                   /\ detect_pkcs8(last.alg, last.of.body, ForVerifier) = "Ok(true)"
        /\ (IsPemImport /\ last.of.label = PemPkcs1Label) =>
               \A c \in ParserCalls : c.arg = to_pkcs8(last.alg, last.of.body, ForVerifier)

C18_Witness ==
    /\ last.op = "signer_from_der"
    /\ IsBareKey
    /\ ~last.of.is_public
    /\ detect_pkcs8(last.alg, last.input, FALSE) = "Ok(false)"
    /\ ParserCalls = {Call("PKey::private_key_from_der", to_pkcs8(last.alg, last.input, FALSE))}
    /\ last.out.ok

(***************************************************************************)
(* Properties of the exported JWK.                                         *)
(***************************************************************************)
IsJwkExport == last.op \in JwkExports

IsImportOfExport == IsJwkImport /\ last.of.via \in JwkExports

\* The exports that carry the flag of the constructor of last.
ExportsForRole ==
    IF last.op = "signer_from_jwk" THEN {"to_jwk_private_key", "to_jwk_keypair"}
    ELSE {"to_jwk_public_key", "to_jwk_keypair"}

\* The key operations each export writes.
ExportedKeyOps(via) ==
    CASE via = "to_jwk_private_key" -> <<"sign">>
      [] via = "to_jwk_public_key" -> <<"verify">>
      [] via = "to_jwk_keypair" -> <<"sign", "verify">>

\* C19: an exported JWK is accepted by the JWK constructor of a role and of
\* the same algorithm exactly when it was exported with that role's flag:
\* to_jwk_private_key by the signer only, to_jwk_public_key by the verifier
\* only, to_jwk_keypair by both; the refusals are InvalidKeyFormat; the
\* constructors of the other two algorithms refuse all three.
C19_ExportedJwkAcceptedByRole ==
    /\ IsJwkExport => last.ret.key_ops = JsonArray(ExportedKeyOps(last.op))
    /\ IsImportOfExport =>
           /\ last.out.ok <=> (/\ last.alg = last.of.keypair.algorithm
                               /\ last.of.via \in ExportsForRole)
           /\ ~last.out.ok => last.out.kind = "InvalidKeyFormat"
           /\ last.out.ok =>
                  /\ obj.type = (IF last.op = "signer_from_jwk" THEN "Signer" ELSE "Verifier")
                  /\ KeyOf(obj) = last.of.keypair.pkey.key

C19_Witness ==
    /\ IsImportOfExport
    /\ last.op = "verifier_from_jwk"
    /\ last.of.via = "to_jwk_private_key"
    /\ last.alg = last.of.keypair.algorithm
    /\ ~last.out.ok
    /\ last.out.kind = "InvalidKeyFormat"
    /\ last.out.cause = <<"key_ops">>

\* C20: the JWK of to_jwk_public_key holds n and e and none of d, p, q, dp,
\* dq, qi; those of to_jwk_private_key and to_jwk_keypair hold all eight;
\* all three have kty "RSA", use "sig" and the algorithm's name as alg.
C20_ExportedJwkParameters ==
    IsJwkExport =>
        /\ last.ret.kty = "RSA"
        /\ last.ret.use = "sig"
        /\ last.ret.alg = name(last.keypair.algorithm)
        /\ last.ret.alg = last.keypair.algorithm
        /\ \A p \in {"n", "e"} : last.ret.params[p].t = "string"
        /\ \A p \in {"d", "p", "q", "dp", "dq", "qi"} :
               IF last.op = "to_jwk_public_key" THEN last.ret.params[p] = Absent
               ELSE last.ret.params[p].t = "string"
        /\ \A p \in Range(PrivateParams) :
               last.ret.params[p].t = "string" =>
                   base64_decode_url(last.ret.params[p].v)
                       = [ok |-> TRUE, bytes |-> Component(last.keypair.pkey.key, p)]

C20_Witness ==
    /\ IsJwkExport
    /\ last.op = "to_jwk_public_key"
    /\ last.keypair.algorithm = "PS512"
    /\ last.ret.alg = "PS512"
    /\ last.ret.params["d"] = Absent
    /\ last.ret.params["n"].t = "string"

====
